---- MODULE Spec2Model ----
(***************************************************************************)
(* Unit & quantity engine of imhotep-nb/units.                            *)
(*                                                                         *)
(* The registry, the symbol parser and Define are those of                 *)
(* src/quantity/unit.go, the base-unit table that of src/quantity/data.go, *)
(* the Quantity operations those of src/src/unit/quantity.go (whose get is *)
(* UnitFor).                                                               *)
(*                                                                         *)
(* Modelling conventions                                                   *)
(*  - A Go string is the sequence of its bytes, each byte a one-character  *)
(*    TLA+ string ("k", "2", "/"); a byte outside ASCII is written by its  *)
(*    hexadecimal name ("0xC2").                                           *)
(*  - A float64 is the exact rational n/d * 10^e it denotes (rounding is   *)
(*    not modelled), or one of +Inf, -Inf, NaN, written with d = 0.        *)
(*  - An int8 keeps its width: every int8 result is wrapped into           *)
(*    -128..127.                                                           *)
(*  - A *Unit is the Unit record it points to; the nil pointer is NilUnit, *)
(*    and &UndefinedUnit is the record UndefinedUnit.                      *)
(*  - A panic is an outcome of a call: the result record carries panic =   *)
(*    TRUE and no value.                                                   *)
(***************************************************************************)
EXTENDS Integers, Sequences, FiniteSets, TLC

(***************************************************************************)
(* float64 as exact rationals with a decimal exponent                      *)
(***************************************************************************)
Abs(x) == IF x < 0 THEN -x ELSE x

Sign(x) == IF x < 0 THEN -1 ELSE IF x > 0 THEN 1 ELSE 0

RECURSIVE Gcd(_, _)
Gcd(a, b) == IF b = 0 THEN a ELSE Gcd(b, a % b)

RECURSIVE Pow10(_)
Pow10(k) == IF k <= 0 THEN 1 ELSE 10 * Pow10(k - 1)

PosInf == [n |-> 1, d |-> 0, e |-> 0]
NegInf == [n |-> -1, d |-> 0, e |-> 0]
NaN == [n |-> 0, d |-> 0, e |-> 0]
Zero == [n |-> 0, d |-> 1, e |-> 0]
One == [n |-> 1, d |-> 1, e |-> 0]

IsFinite(x) == x.d # 0
IsNaN(x) == x.d = 0 /\ x.n = 0

\* the unique representation of n/d * 10^e, d > 0: d coprime to 10,
\* gcd(n, d) = 1 and 10 not dividing n
RECURSIVE Norm(_, _, _)
Norm(n, d, e) ==
    IF n = 0 THEN Zero
    ELSE IF d % 2 = 0 THEN Norm(n * 5, d \div 2, e - 1)
    ELSE IF d % 5 = 0 THEN Norm(n * 2, d \div 5, e - 1)
    ELSE IF n % 10 = 0 THEN Norm(n \div 10, d, e + 1)
    ELSE LET g == Gcd(Abs(n), d)
         IN  IF g = 1 THEN [n |-> n, d |-> d, e |-> e]
             ELSE Norm(n \div g, d \div g, e)

\* the integer k and the decimal n * 10^e as float64 values
Int2F(k) == Norm(k, 1, 0)
Dec(n, e) == Norm(n, 1, e)

FNeg(x) == [x EXCEPT !.n = -x.n]

\* (n1/d1) * (n2/d2) * 10^e, the common divisors taken out before multiplying
Reduced(n1, d1, n2, d2, e) ==
    Norm((n1 \div Gcd(Abs(n1), d2)) * (n2 \div Gcd(Abs(n2), d1)),
         (d1 \div Gcd(Abs(n2), d1)) * (d2 \div Gcd(Abs(n1), d2)), e)

FMul(x, y) ==
    IF IsNaN(x) \/ IsNaN(y) THEN NaN
    ELSE IF ~IsFinite(x) \/ ~IsFinite(y)
         THEN IF x.n = 0 \/ y.n = 0 THEN NaN
              ELSE IF Sign(x.n) * Sign(y.n) > 0 THEN PosInf ELSE NegInf
    ELSE Reduced(x.n, x.d, y.n, y.d, x.e + y.e)

FDiv(x, y) ==
    IF IsNaN(x) \/ IsNaN(y) THEN NaN
    ELSE IF ~IsFinite(x)
         THEN IF ~IsFinite(y) THEN NaN
              ELSE IF Sign(x.n) * (IF y.n < 0 THEN -1 ELSE 1) > 0 THEN PosInf ELSE NegInf
    ELSE IF ~IsFinite(y) THEN Zero
    ELSE IF y.n = 0
         THEN IF x.n = 0 THEN NaN ELSE IF x.n > 0 THEN PosInf ELSE NegInf
    ELSE Reduced(x.n * Sign(y.n), x.d, y.d, Abs(y.n), x.e - y.e)

FAdd(x, y) ==
    IF IsNaN(x) \/ IsNaN(y) THEN NaN
    ELSE IF ~IsFinite(x)
         THEN IF ~IsFinite(y) /\ x.n # y.n THEN NaN ELSE x
    ELSE IF ~IsFinite(y) THEN y
    ELSE LET m == IF x.e < y.e THEN x.e ELSE y.e
         IN  Norm(x.n * Pow10(x.e - m) * y.d + y.n * Pow10(y.e - m) * x.d, x.d * y.d, m)

FSub(x, y) == FAdd(x, FNeg(y))

FLess(x, y) ==
    IF IsNaN(x) \/ IsNaN(y) THEN FALSE
    ELSE IF ~IsFinite(x) THEN x.n < 0 /\ y # NegInf
    ELSE IF ~IsFinite(y) THEN y.n > 0
    ELSE LET m == IF x.e < y.e THEN x.e ELSE y.e
         IN  x.n * Pow10(x.e - m) * y.d < y.n * Pow10(y.e - m) * x.d

\* math.Pow(x, float64(k)) for an integer k
RECURSIVE FPowNat(_, _)
FPowNat(x, k) ==
    IF k = 0 THEN One
    ELSE IF IsFinite(x) /\ x.n = 1 /\ x.d = 1 THEN [n |-> 1, d |-> 1, e |-> x.e * k]
    ELSE FMul(x, FPowNat(x, k - 1))

FPow(x, k) ==
    IF k = 0 THEN One
    ELSE IF IsNaN(x) THEN NaN
    ELSE IF k > 0 THEN FPowNat(x, k)
    ELSE FDiv(One, FPowNat(x, -k))

(***************************************************************************)
(* strings (package strings, strconv, regexp)                              *)
(***************************************************************************)
Digits == {"0", "1", "2", "3", "4", "5", "6", "7", "8", "9"}

DigitVal(c) ==
    CASE c = "0" -> 0 [] c = "1" -> 1 [] c = "2" -> 2 [] c = "3" -> 3 [] c = "4" -> 4
      [] c = "5" -> 5 [] c = "6" -> 6 [] c = "7" -> 7 [] c = "8" -> 8 [] c = "9" -> 9

DigitChar(k) ==
    CASE k = 0 -> "0" [] k = 1 -> "1" [] k = 2 -> "2" [] k = 3 -> "3" [] k = 4 -> "4"
      [] k = 5 -> "5" [] k = 6 -> "6" [] k = 7 -> "7" [] k = 8 -> "8" [] k = 9 -> "9"

Tail2(s, k) == SubSeq(s, k + 1, Len(s))

\* strings.ReplaceAll(s, old, new) for a one-byte old
RECURSIVE ReplaceAll(_, _, _)
ReplaceAll(s, old, new) ==
    IF s = <<>> THEN <<>>
    ELSE (IF Head(s) = old THEN new ELSE <<Head(s)>>) \o ReplaceAll(Tail(s), old, new)

\* strings.Split(s, sep) for a one-byte sep: Split("", sep) is [""]
RECURSIVE SplitAcc(_, _, _)
SplitAcc(s, sep, cur) ==
    IF s = <<>> THEN <<cur>>
    ELSE IF Head(s) = sep THEN <<cur>> \o SplitAcc(Tail(s), sep, <<>>)
    ELSE SplitAcc(Tail(s), sep, Append(cur, Head(s)))

Split(s, sep) == SplitAcc(s, sep, <<>>)

\* strings.Contains(s, c) for a one-byte c
Contains(s, c) == \E i \in 1..Len(s) : s[i] = c

\* strings.IndexByte(s, c), 0-based, -1 when absent
IndexByte(s, c) ==
    IF Contains(s, c) THEN (CHOOSE i \in 1..Len(s) : s[i] = c /\ \A j \in 1..(i - 1) : s[j] # c) - 1
    ELSE -1

RECURSIVE AtoiNat(_, _)
AtoiNat(s, acc) == IF s = <<>> THEN acc ELSE AtoiNat(Tail(s), acc * 10 + DigitVal(Head(s)))

\* strconv.Atoi on a string matching -?\d+
Atoi(s) == IF Head(s) = "-" THEN -AtoiNat(Tail(s), 0) ELSE AtoiNat(s, 0)

RECURSIVE ItoaNat(_)
ItoaNat(k) == IF k < 10 THEN <<DigitChar(k)>> ELSE Append(ItoaNat(k \div 10), DigitChar(k % 10))

\* strconv.Itoa
Itoa(k) == IF k < 0 THEN <<"-">> \o ItoaNat(-k) ELSE ItoaNat(k)

\* the conversion int8(x) of an int, and int8 arithmetic: two's complement wrap
Int8(x) == ((x + 128) % 256) - 128

\* length of the longest prefix of s without a digit or a '-'
RECURSIVE NameLen(_)
NameLen(s) ==
    IF s = <<>> \/ Head(s) \in Digits \/ Head(s) = "-" THEN 0 ELSE 1 + NameLen(Tail(s))

\* symbolRx = ^([^\d-]+)(-?\d+)?$ ; FindStringSubmatch: <<>> when there is no
\* match, else <<whole, name, exponent>> with exponent "" when group 2 is absent
SymbolRxMatch(s) ==
    LET k == NameLen(s)
        rest == Tail2(s, k)
        digs == IF rest # <<>> /\ Head(rest) = "-" THEN Tail(rest) ELSE rest
    IN  IF k = 0 THEN <<>>
        ELSE IF rest = <<>> THEN <<s, s, <<>>>>
        ELSE IF digs # <<>> /\ \A i \in 1..Len(digs) : digs[i] \in Digits
             THEN <<s, SubSeq(s, 1, k), rest>>
        ELSE <<>>

(***************************************************************************)
(* units (src/quantity/unit.go)                                            *)
(***************************************************************************)
nBaseUnits == 11

Unit(symbol, factor, exponents) ==
    [symbol |-> symbol, factor |-> factor, exponents |-> exponents]

\* the nil *Unit; reading a field through it panics
NilUnit == [nil |-> TRUE]
IsNil(u) == u = NilUnit

yocto == Dec(1, -24)
zepto == Dec(1, -21)
atto == Dec(1, -18)
femto == Dec(1, -15)
pico == Dec(1, -12)
nano == Dec(1, -9)
micro == Dec(1, -6)
milli == Dec(1, -3)
centi == Dec(1, -2)
deci == Dec(1, -1)
deca == Dec(1, 1)
hecto == Dec(1, 2)
kilo == Dec(1, 3)
mega == Dec(1, 6)
giga == Dec(1, 9)
tera == Dec(1, 12)
peta == Dec(1, 15)
exa == Dec(1, 18)
zetta == Dec(1, 21)
yotta == Dec(1, 24)

emptyExponents == [i \in 1..nBaseUnits |-> 0]

UndefinedUnit == Unit(<<"?">>, Zero, emptyExponents)

baseSymbols ==
    << <<"m">>, <<"k", "g">>, <<"K">>, <<"A">>, <<"c", "d">>, <<"m", "o", "l">>,
       <<"r", "a", "d">>, <<"s", "r">>, <<"0xC2", "0xA4">>, <<"b", "y", "t", "e">>, <<"s">> >>

prefixValues ==
    << deci, centi, hecto, milli, kilo, micro, mega, nano, giga, pico, tera, femto,
       peta, atto, exa, zepto, zetta, yotta, yocto >>

prefixSymbols ==
    << "d", "c", "h", "m", "k", "u", "M", "n", "G", "p", "T", "f", "P", "a", "E", "z",
       "Z", "y", "Y" >>

\* f is the func(int8) int8 as a function on the int8 values
mapexp(e, f) == [i \in 1..nBaseUnits |-> f[e[i]]]

addx(a, b) == [i \in 1..nBaseUnits |-> Int8(a[i] + b[i])]

negx(a) == mapexp(a, [e \in -128..127 |-> Int8(-e)])

RECURSIVE makeSymbolFrom(_, _)
makeSymbolFrom(expon, i) ==
    IF i > nBaseUnits THEN <<>>
    ELSE (IF expon[i] # 0
          THEN <<".">> \o baseSymbols[i] \o (IF expon[i] # 1 THEN Itoa(expon[i]) ELSE <<>>)
          ELSE <<>>) \o makeSymbolFrom(expon, i + 1)

makeSymbol(expon) ==
    LET a == makeSymbolFrom(expon, 1)
    IN  IF a = <<>> THEN <<"?">> ELSE Tail(a)

addu(a, b) ==
    LET x == addx(a.exponents, b.exponents)
    IN  Unit(makeSymbol(x), FMul(a.factor, b.factor), x)

subu(a, b) ==
    LET x == addx(a.exponents, negx(b.exponents))
    IN  Unit(makeSymbol(x), FDiv(a.factor, b.factor), x)

haveSameExponents(x, y) == \A i \in DOMAIN x : x[i] = y[i]

toSI(u) == [factor |-> u.factor, si |-> Unit(makeSymbol(u.exponents), One, u.exponents)]

\* units[k] of the Go map: the nil pointer for an absent key
Lookup(reg, k) == IF k \in DOMAIN reg THEN reg[k] ELSE NilUnit

\* units[k] = u
Store(reg, k, u) == [x \in DOMAIN reg \cup {k} |-> IF x = k THEN u ELSE reg[x]]

\* prefix without the test on the base unit's factor and symbol
prefix_anyBase(reg, symbol) ==
    LET isDa == Len(symbol) > 2 /\ SubSeq(symbol, 1, 2) = <<"d", "a">>
        i == IndexByte(prefixSymbols, symbol[1])
        f0 == IF isDa THEN deca ELSE IF i # -1 THEN prefixValues[i + 1] ELSE Zero
        base0 == IF isDa THEN Tail2(symbol, 2) ELSE IF i # -1 THEN Tail(symbol) ELSE <<>>
    IN  IF Len(symbol) < 2 \/ ~(isDa \/ i # -1) \/ base0 \notin DOMAIN reg
        THEN [f |-> Zero, base |-> <<>>, ok |-> FALSE]
        ELSE IF reg[base0].symbol = <<"g">>
             THEN [f |-> FDiv(f0, Int2F(1000)), base |-> <<"k", "g">>, ok |-> TRUE]
             ELSE [f |-> f0, base |-> base0, ok |-> TRUE]

prefix(reg, symbol) ==
    LET isDa == Len(symbol) > 2 /\ SubSeq(symbol, 1, 2) = <<"d", "a">>
        i == IndexByte(prefixSymbols, symbol[1])
        ok0 == isDa \/ i # -1
        f0 == IF isDa THEN deca ELSE IF i # -1 THEN prefixValues[i + 1] ELSE Zero
        base0 == IF isDa THEN Tail2(symbol, 2) ELSE IF i # -1 THEN Tail(symbol) ELSE <<>>
    IN  IF Len(symbol) < 2 THEN [f |-> Zero, base |-> <<>>, ok |-> FALSE]
        ELSE IF ~ok0 THEN [f |-> f0, base |-> base0, ok |-> FALSE]
        ELSE IF base0 \in DOMAIN reg
             THEN IF reg[base0].symbol = <<"g">>
                  THEN [f |-> FDiv(f0, Int2F(1000)), base |-> <<"k", "g">>, ok |-> TRUE]
                  ELSE IF reg[base0].factor # One \/ Contains(reg[base0].symbol, " ")
                       THEN [f |-> f0, base |-> base0, ok |-> FALSE]
                       ELSE [f |-> f0, base |-> base0, ok |-> TRUE]
        ELSE [f |-> f0, base |-> base0, ok |-> FALSE]

(***************************************************************************)
(* the base-unit table (src/quantity/data.go). The rows whose factor is a  *)
(* multiple of math.Pi (deg, cycles, rpm) or needs more than 31 bits as a  *)
(* decimal (acre, sq mi, lbf, TiB, PiB, oz, mmHg, cmHg, cu ft, us gal,     *)
(* us fl oz, imp fl oz) are left out: they are plain rows like the others. *)
(***************************************************************************)
acceleration == <<1, 0, 0, 0, 0, 0, 0, 0, 0, 0, -2>>
angle == <<0, 0, 0, 0, 0, 0, 1, 0, 0, 0, 0>>
area == <<2, 0, 0, 0, 0, 0, 0, 0, 0, 0, 0>>
capacitance == <<-2, -1, 0, 2, 0, 0, 0, 0, 0, 0, 4>>
duration == <<0, 0, 0, 0, 0, 0, 0, 0, 0, 0, 1>>
electricCharge == <<0, 0, 0, 1, 0, 0, 0, 0, 0, 0, 1>>
electricCurrent == <<0, 0, 0, 1, 0, 0, 0, 0, 0, 0, 0>>
electricResistance == <<2, 1, 0, -2, 0, 0, 0, 0, 0, 0, -3>>
energy == <<2, 1, 0, 0, 0, 0, 0, 0, 0, 0, -2>>
force == <<1, 1, 0, 0, 0, 0, 0, 0, 0, 0, -2>>
frequency == <<0, 0, 0, 0, 0, 0, 0, 0, 0, 0, -1>>
fuelEfficiency == <<2, 0, 0, 0, 0, 0, 0, 0, 0, 0, 0>>
illuminance == <<-2, 0, 0, 0, 1, 0, 0, 1, 0, 0, 0>>
information == <<0, 0, 0, 0, 0, 0, 0, 0, 0, 1, 0>>
length == <<1, 0, 0, 0, 0, 0, 0, 0, 0, 0, 0>>
luminousFlux == <<0, 0, 0, 0, 1, 0, 0, 1, 0, 0, 0>>
luminousIntensity == <<0, 0, 0, 0, 1, 0, 0, 0, 0, 0, 0>>
mass == <<0, 1, 0, 0, 0, 0, 0, 0, 0, 0, 0>>
matter == <<0, 0, 0, 0, 0, 1, 0, 0, 0, 0, 0>>
money == <<0, 0, 0, 0, 0, 0, 0, 0, 1, 0, 0>>
power == <<2, 1, 0, 0, 0, 0, 0, 0, 0, 0, -3>>
pressure == <<-1, 1, 0, 0, 0, 0, 0, 0, 0, 0, -2>>
solidAngle == <<0, 0, 0, 0, 0, 0, 0, 1, 0, 0, 0>>
speed == <<1, 0, 0, 0, 0, 0, 0, 0, 0, 0, -1>>
temperature == <<0, 0, 1, 0, 0, 0, 0, 0, 0, 0, 0>>
unitless == <<0, 0, 0, 0, 0, 0, 0, 0, 0, 0, 0>>
voltage == <<2, 1, 0, -1, 0, 0, 0, 0, 0, 0, -3>>
volume == <<3, 0, 0, 0, 0, 0, 0, 0, 0, 0, 0>>

setup ==
    << Unit(<<>>, Dec(1, 0), unitless),  \* "" 1
       Unit(<<"G">>, Dec(980665, -5), acceleration),  \* "G" 9.80665
       Unit(<<"r", "a", "d">>, Dec(1, 0), angle),  \* "rad" 1
       Unit(<<"s", "q", "m">>, Dec(1, 0), area),  \* "sqm" 1
       Unit(<<"h", "a">>, Dec(1, 4), area),  \* "ha" 1e4
       Unit(<<"s", "q", " ", "i", "n">>, Dec(64516, -8), area),  \* "sq in" 0.00064516
       Unit(<<"s", "q", " ", "f", "t">>, Dec(9290304, -8), area),  \* "sq ft" 0.09290304
       Unit(<<"F">>, Dec(1, 0), capacitance),  \* "F" 1
       Unit(<<"s">>, Dec(1, 0), duration),  \* "s" 1
       Unit(<<"m", "i", "n">>, Dec(6, 1), duration),  \* "min" 60
       Unit(<<"h">>, Dec(36, 2), duration),  \* "h" 3600
       Unit(<<"d">>, Dec(864, 2), duration),  \* "d" 24*3600
       Unit(<<"C">>, Dec(1, 0), electricCharge),  \* "C" 1
       Unit(<<"A">>, Dec(1, 0), electricCurrent),  \* "A" 1
       Unit(<<"0xCE", "0xA9">>, Dec(1, 0), electricResistance),  \* "Ω" 1
       Unit(<<"J">>, Dec(1, 0), energy),  \* "J" 1
       Unit(<<"k", "W", "h">>, Dec(36, 5), energy),  \* "kWh" 3.6e6
       Unit(<<"N">>, Dec(1, 0), force),  \* "N" 1
       Unit(<<"H", "z">>, Dec(1, 0), frequency),  \* "Hz" 1
       Unit(<<"L", "/", "1", "0", "0", "k", "m">>, Dec(1, -8), fuelEfficiency),  \* "L/100km" 1e-8
       Unit(<<"l", "x">>, Dec(1, 0), illuminance),  \* "lx" 1
       Unit(<<"b", "i", "t">>, Dec(125, -3), information),  \* "bit" 0.125
       Unit(<<"b", "y", "t", "e">>, Dec(1, 0), information),  \* "byte" 1
       Unit(<<"K", "i", "B">>, Dec(1024, 0), information),  \* "KiB" 1024
       Unit(<<"M", "i", "B">>, Dec(1048576, 0), information),  \* "MiB" 1048576
       Unit(<<"G", "i", "B">>, Dec(1073741824, 0), information),  \* "GiB" 1073741824
       Unit(<<"m">>, Dec(1, 0), length),  \* "m" 1
       Unit(<<"m", "i">>, Dec(1609344, -3), length),  \* "mi" 1609.344
       Unit(<<"i", "n">>, Dec(254, -4), length),  \* "in" 0.0254
       Unit(<<"f", "t">>, Dec(3048, -4), length),  \* "ft" 0.3048
       Unit(<<"y", "d">>, Dec(9144, -4), length),  \* "yd" 0.9144
       Unit(<<"M">>, Dec(1852, 0), length),  \* "M" 1852
       Unit(<<"l", "m">>, Dec(1, 0), luminousFlux),  \* "lm" 1
       Unit(<<"c", "d">>, Dec(1, 0), luminousIntensity),  \* "cd" 1
       Unit(<<"k", "g">>, Dec(1, 0), mass),  \* "kg" 1
       Unit(<<"g">>, Dec(1, -3), mass),  \* "g" 0.001
       Unit(<<"t">>, Dec(1, 3), mass),  \* "t" 1000
       Unit(<<"l", "b">>, Dec(45359237, -8), mass),  \* "lb" 0.45359237
       Unit(<<"l", "b", "s">>, Dec(45359237, -8), mass),  \* "lbs" 0.45359237
       Unit(<<"s", "h", "o", "r", "t", " ", "t", "o", "n">>, Dec(90718474, -5), mass),  \* "short ton" 907.18474
       Unit(<<"l", "o", "n", "g", " ", "t", "o", "n">>, Dec(101604691, -5), mass),  \* "long ton" 1016.04691
       Unit(<<"s", "t">>, Dec(635029318, -8), mass),  \* "st" 6.35029318
       Unit(<<"m", "o", "l">>, Dec(1, 0), matter),  \* "mol" 1
       Unit(<<"0xC2", "0xA4">>, Dec(1, 0), money),  \* "¤" 1
       Unit(<<"$">>, Dec(1, 0), money),  \* "$" 1
       Unit(<<"U", "S", "D">>, Dec(1, 0), money),  \* "USD" 1
       Unit(<<"N", "Z", "D">>, Dec(157, -2), money),  \* "NZD" 1.57
       Unit(<<"W">>, Dec(1, 0), power),  \* "W" 1
       Unit(<<"h", "p">>, Dec(745699872, -6), power),  \* "hp" 745.699872
       Unit(<<"P", "a">>, Dec(1, 0), pressure),  \* "Pa" 1
       Unit(<<"p", "s", "i">>, Dec(689475729, -5), pressure),  \* "psi" 6894.75729
       Unit(<<"b", "a", "r">>, Dec(1, 5), pressure),  \* "bar" 1e5
       Unit(<<"m", "b", "a", "r">>, Dec(1, 2), pressure),  \* "mbar" 100
       Unit(<<"k", "b", "a", "r">>, Dec(1, 8), pressure),  \* "kbar" 1e8
       Unit(<<"s", "r">>, Dec(1, 0), solidAngle),  \* "sr" 1
       Unit(<<"k", "p", "h">>, Norm(25, 9, -1), speed),  \* "kph" 1000.0/3600.0
       Unit(<<"m", "p", "h">>, Dec(44704, -5), speed),  \* "mph" 1609.344/3600.0
       Unit(<<"k", "n">>, Norm(463, 9, -2), speed),  \* "kn" 1852/3600.0
       Unit(<<"K">>, Dec(1, 0), temperature),  \* "K" 1
       Unit(<<"d", "e", "g", "C">>, Dec(1, 0), temperature),  \* "degC" 1
       Unit(<<"d", "e", "g", "F">>, Norm(5, 9, 0), temperature),  \* "degF" 5.0/9
       Unit(<<"V">>, Dec(1, 0), voltage),  \* "V" 1
       Unit(<<"L">>, Dec(1, -3), volume),  \* "L" 1e-3
       Unit(<<"i", "m", "p", " ", "g", "a", "l">>, Dec(454609188, -11), volume) >>  \* "imp gal" 0.00454609188

\* init: the registry after package initialisation
InitialUnits == [k \in {setup[i].symbol : i \in DOMAIN setup} |->
                    setup[CHOOSE i \in DOMAIN setup : setup[i].symbol = k]]

(***************************************************************************)
(* quantities (src/src/unit/quantity.go). A call returns Ret(q), or Panic  *)
(* when it reads a field through a nil unit or check panics.               *)
(***************************************************************************)
Quantity(value, unit) == [value |-> value, unit |-> unit]

Panic == [panic |-> TRUE]
Ret(q) == [panic |-> FALSE, q |-> q]

\* a.value * a.factor
SIValue(a) == FMul(a.value, a.unit.factor)

Mult(a, b) ==
    IF IsNil(a.unit) \/ IsNil(b.unit) THEN Panic
    ELSE Ret(Quantity(FMul(FMul(SIValue(a), b.value), b.unit.factor), addu(a.unit, b.unit)))

Div(a, b) ==
    IF IsNil(a.unit) \/ IsNil(b.unit) THEN Panic
    ELSE Ret(Quantity(FDiv(SIValue(a), SIValue(b)), subu(a.unit, b.unit)))

Reciprocal(a) ==
    IF IsNil(a.unit) THEN Panic
    ELSE LET x == negx(a.unit.exponents)
         IN  Ret(Quantity(FDiv(One, SIValue(a)), Unit(makeSymbol(x), One, x)))

\* n is an int8
Power(a, n) ==
    IF IsNil(a.unit) THEN Panic
    ELSE LET calc == [e \in -128..127 |-> Int8(e * n)]
             x == mapexp(a.unit.exponents, calc)
         IN  Ret(Quantity(FPow(SIValue(a), n), Unit(makeSymbol(x), One, x)))

(***************************************************************************)
(* ParseSymbol, UnitFor and Define (src/quantity/unit.go)                  *)
(***************************************************************************)
NoError == "nil"
ErrSlashes == "more than one '/' in unit"
ErrCannotParse == "cannot parse unit"
ErrUnknownSymbol == "unknown symbol"
ErrNegativeExponent == "invalid format: negative exponent after the '/'"
ErrDuplicate == "duplicate symbol"

\* the factors of the expression in the order of the two nested loops, each
\* with the index i of its part (0 before the '/', 1 after it)
RECURSIVE FactorsOf(_, _)
FactorsOf(parts, i) ==
    IF i > Len(parts) THEN <<>>
    ELSE LET syms == Split(parts[i], ".")
         IN  [k \in 1..Len(syms) |-> [i |-> i - 1, symbol |-> syms[k]]]
             \o FactorsOf(parts, i + 1)

ParseResult(q, err) == [panic |-> FALSE, q |-> q, err |-> err]

\* u and pf of ParseSymbol for the name of a factor: the registered unit, or
\* else the unit and the multiplier that prefix gives
Prefixed(reg, p) ==
    IF p.ok THEN [ok |-> TRUE, u |-> Lookup(reg, p.base), pf |-> p.f] ELSE [ok |-> FALSE]

Resolve(reg, name) ==
    IF name \in DOMAIN reg THEN [ok |-> TRUE, u |-> reg[name], pf |-> One]
    ELSE Prefixed(reg, prefix(reg, name))

\* mSI := Quantity{pf * factor, &uSI}
FactorSI(res) == Quantity(FMul(res.pf, toSI(res.u).factor), toSI(res.u).si)

\* resultSI = Mult(resultSI, mSI) before the '/', Div(resultSI, mSI) after it
Combine(i, resultSI, mSI) == IF i = 0 THEN Mult(resultSI, mSI) ELSE Div(resultSI, mSI)

\* the statements after the loops: factor and value are swapped, the symbol
\* becomes s
Finish(s, resultSI) ==
    IF IsNil(resultSI.unit) THEN Panic
    ELSE ParseResult(Quantity(resultSI.unit.factor,
                              Unit(s, resultSI.value, resultSI.unit.exponents)),
                     NoError)

\* the body of the two nested loops of ParseSymbol, one factor at a time
RECURSIVE ParseFactors(_, _, _, _)

ParseCombined(reg, s, factors, r) ==
    IF r.panic THEN Panic ELSE ParseFactors(reg, s, Tail(factors), r.q)

\* ParseExponent without the test for a negative exponent after the '/'
ParseExponent_unchecked(reg, s, factors, resultSI, mSI, x) ==
    ParseCombined(reg, s, factors, Combine(Head(factors).i, resultSI, Power(mSI, Int8(x)).q))

ParseExponent(reg, s, factors, resultSI, mSI, x) ==
    IF Head(factors).i = 1 /\ x < 0 THEN ParseResult(resultSI, ErrNegativeExponent)
    ELSE ParseCombined(reg, s, factors,
                       Combine(Head(factors).i, resultSI, Power(mSI, Int8(x)).q))

ParseResolved(reg, s, factors, resultSI, exponent, res) ==
    IF ~res.ok THEN ParseResult(resultSI, ErrUnknownSymbol)
    ELSE IF IsNil(res.u) THEN Panic
    ELSE IF exponent # <<>>
         THEN ParseExponent(reg, s, factors, resultSI, FactorSI(res), Atoi(exponent))
         ELSE ParseCombined(reg, s, factors,
                            Combine(Head(factors).i, resultSI, FactorSI(res)))

ParseMatched(reg, s, factors, resultSI, match) ==
    IF Len(match) # 3 THEN ParseResult(resultSI, ErrCannotParse)
    ELSE ParseResolved(reg, s, factors, resultSI, match[3], Resolve(reg, match[2]))

ParseFactors(reg, s, factors, resultSI) ==
    IF factors = <<>> THEN Finish(s, resultSI)
    ELSE ParseMatched(reg, s, factors, resultSI, SymbolRxMatch(Head(factors).symbol))

\* the input after the two strings.ReplaceAll calls of ParseSymbol
Rewritten(s0) == ReplaceAll(ReplaceAll(s0, "*", <<".">>), "^", <<>>)

ParseParts(reg, s, parts) ==
    IF Len(parts) > 2 THEN ParseResult(Quantity(One, Lookup(reg, <<>>)), ErrSlashes)
    ELSE ParseFactors(reg, s, FactorsOf(parts, 1), Quantity(One, Lookup(reg, <<>>)))

ParseRewritten(reg, s) == ParseParts(reg, s, Split(s, "/"))

ParseSymbol(reg, s0) == ParseRewritten(reg, Rewritten(s0))

\* Parsed caching the undefined unit too
Parsed_cachesFailure(reg, r) ==
    IF r.panic THEN [panic |-> TRUE, units |-> reg]
    ELSE IF r.err # NoError
         THEN [panic |-> FALSE, u |-> UndefinedUnit, parsed |-> TRUE,
               units |-> Store(reg, UndefinedUnit.symbol, UndefinedUnit)]
    ELSE [panic |-> FALSE, u |-> r.q.unit, parsed |-> TRUE,
          units |-> Store(reg, r.q.unit.symbol, r.q.unit)]

\* UnitFor after a cache miss: r is what ParseSymbol returned
Parsed(reg, r) ==
    IF r.panic THEN [panic |-> TRUE, units |-> reg]
    ELSE IF r.err # NoError
         THEN [panic |-> FALSE, u |-> UndefinedUnit, parsed |-> TRUE, units |-> reg]
    ELSE [panic |-> FALSE, u |-> r.q.unit, parsed |-> TRUE,
          units |-> Store(reg, r.q.unit.symbol, r.q.unit)]

\* returns the unit, whether ParseSymbol was called, and the registry after
\* the call
UnitFor(reg, symbol) ==
    IF symbol \in DOMAIN reg
    THEN [panic |-> FALSE, u |-> reg[symbol], parsed |-> FALSE, units |-> reg]
    ELSE Parsed(reg, ParseSymbol(reg, symbol))

\* Defined registering the new symbol although the base did not parse
Defined_storesOnError(reg, symbol, factor, mBase) ==
    IF mBase.panic THEN [panic |-> TRUE, units |-> reg]
    ELSE [panic |-> FALSE,
          siFactor |-> IF mBase.err # NoError THEN Zero
                       ELSE FMul(factor, mBase.q.unit.factor),
          err |-> mBase.err,
          units |-> Store(reg, symbol,
                          Unit(symbol, FMul(factor, mBase.q.unit.factor),
                               mBase.q.unit.exponents))]

\* Define for a new symbol: mBase is what ParseSymbol returned for the base
Defined(reg, symbol, factor, mBase) ==
    IF mBase.panic THEN [panic |-> TRUE, units |-> reg]
    ELSE IF mBase.err # NoError
         THEN [panic |-> FALSE, siFactor |-> Zero, err |-> mBase.err, units |-> reg]
         ELSE [panic |-> FALSE, siFactor |-> FMul(factor, mBase.q.unit.factor),
               err |-> NoError,
               units |-> Store(reg, symbol,
                               Unit(symbol, FMul(factor, mBase.q.unit.factor),
                                    mBase.q.unit.exponents))]

\* returns the factor, the error and the registry after the call
Define(reg, symbol, factor, base) ==
    IF symbol \in DOMAIN reg
    THEN [panic |-> FALSE, siFactor |-> Zero, err |-> ErrDuplicate, units |-> reg]
    ELSE Defined(reg, symbol, factor, ParseSymbol(reg, base))

(***************************************************************************)
(* conversion and arithmetic (src/src/unit/quantity.go)                    *)
(***************************************************************************)
\* Quantity{}: the zero value, with a nil unit
ZeroQuantity == Quantity(Zero, NilUnit)

\* ConvertTo after target := get(u): g is what get returned; its registry
\* write stays when the call then panics
Converted(m, g) ==
    IF g.panic \/ IsNil(m.unit) THEN [panic |-> TRUE, units |-> g.units]
    ELSE IF ~haveSameExponents(m.unit.exponents, g.u.exponents)
         THEN [panic |-> FALSE, q |-> ZeroQuantity, ok |-> FALSE, units |-> g.units]
         ELSE [panic |-> FALSE,
               q |-> Quantity(FDiv(m.value, FDiv(g.u.factor, m.unit.factor)), g.u),
               ok |-> TRUE, units |-> g.units]

\* returns the quantity, ok and the registry after the call
ConvertTo(reg, m, u) == Converted(m, UnitFor(reg, u))

\* Q after u := get(symbol): it panics for the undefined unit
Made(value, g) ==
    IF g.panic \/ g.u = UndefinedUnit THEN [panic |-> TRUE, units |-> g.units]
    ELSE [panic |-> FALSE, q |-> Quantity(value, g.u), units |-> g.units]

Q(reg, value, symbol) == Made(value, UnitFor(reg, symbol))

\* In after target := get(u): the value is computed without looking at the
\* dimension vectors
Expressed(m, g) ==
    IF g.panic \/ IsNil(m.unit) THEN [panic |-> TRUE, units |-> g.units]
    ELSE [panic |-> FALSE, q |-> Quantity(FDiv(SIValue(m), g.u.factor), g.u),
          units |-> g.units]

In(reg, m, u) == Expressed(m, UnitFor(reg, u))

\* haveSameExponents(m.exponents, get(symbol).exponents) for what get
\* returned and the registry w the call leaves
Compared(m, g, w) ==
    IF g.panic \/ IsNil(m.unit) THEN [panic |-> TRUE, units |-> w]
    ELSE [panic |-> FALSE, b |-> haveSameExponents(m.unit.exponents, g.u.exponents),
          units |-> w]

\* the outcomes of HasCompatibleUnit: the language does not order the read of
\* m.exponents and the call of get, so that with a nil unit the call panics
\* before or after get has written the registry
HasCompatibleUnit(reg, m, symbol) ==
    {Compared(m, UnitFor(reg, symbol), w) :
        w \in IF IsNil(m.unit) THEN {reg, UnitFor(reg, symbol).units}
              ELSE {UnitFor(reg, symbol).units}}

MultFac(m, f) == Ret(Quantity(FMul(m.value, f), m.unit))

\* the class \s of regexp
Whitespace == {" ", "\t", "\n", "\r", "\f"}

\* number of leading bytes of s that are in set
RECURSIVE SpanLen(_, _)
SpanLen(s, set) == IF s = <<>> \/ Head(s) \notin set THEN 0 ELSE 1 + SpanLen(Tail(s), set)

\* the bytes of the class [\d.,]
NumberBytes == Digits \cup {".", ","}

\* muRx after the number group, for the rest t of the text: \s* takes the
\* longest run of whitespace and (.*)$ matches what is left when that holds
\* no newline
muRxRest(s, number, t) ==
    IF Contains(Tail2(t, SpanLen(t, Whitespace)), "\n") THEN <<>>
    ELSE <<s, number, Tail2(t, SpanLen(t, Whitespace))>>

\* muRx after the leading \s* and the '-', for the rest t of the text: sign
\* is "-" or ""; the number group is the longest run of [\d.,]
muRxNumber(s, sign, t) ==
    IF SpanLen(t, NumberBytes) = 0 THEN <<>>
    ELSE muRxRest(s, sign \o SubSeq(t, 1, SpanLen(t, NumberBytes)),
                  Tail2(t, SpanLen(t, NumberBytes)))

\* muRx after the leading \s*
muRxSigned(s, t) ==
    IF t # <<>> /\ Head(t) = "-" THEN muRxNumber(s, <<"-">>, Tail(t))
    ELSE muRxNumber(s, <<>>, t)

\* muRx = ^\s*(-?[\d.,]+)\s*(.*)$ ; FindStringSubmatch: <<>> when there is
\* no match, else <<whole, number, rest>>
muRxMatch(s) == muRxSigned(s, Tail2(s, SpanLen(s, Whitespace)))

\* strings.Count(s, c) for a one-byte c
Count(s, c) == Cardinality({i \in 1..Len(s) : s[i] = c})

\* strings.Trim(s, cutset)
RECURSIVE TrimRight(_, _)
TrimRight(s, cutset) ==
    IF s = <<>> \/ s[Len(s)] \notin cutset THEN s
    ELSE TrimRight(SubSeq(s, 1, Len(s) - 1), cutset)

Trim(s, cutset) == TrimRight(Tail2(s, SpanLen(s, cutset)), cutset)

\* strconv.ParseFloat(f, 64) for f matching -?[\d.]+ with at most one '.':
\* a syntax error when f holds no digit (range errors are not modelled)
ParseFloatDigits(neg, body) ==
    IF ReplaceAll(body, ".", <<>>) = <<>> THEN [ok |-> FALSE]
    ELSE [ok |-> TRUE,
          value |-> Dec((IF neg THEN -1 ELSE 1) * AtoiNat(ReplaceAll(body, ".", <<>>), 0),
                        IF Contains(body, ".") THEN -(Len(body) - IndexByte(body, ".") - 1)
                        ELSE 0)]

ParseFloat(f) ==
    IF f # <<>> /\ Head(f) = "-" THEN ParseFloatDigits(TRUE, Tail(f))
    ELSE ParseFloatDigits(FALSE, f)

ErrInvalidQuantity == "invalid quantity format"
ErrDecimalPoints == "more than one decimal point"
ErrParseFloat == "strconv.ParseFloat: invalid syntax"

\* undef := Quantity{0, &UndefinedUnit}
Undef == Quantity(Zero, UndefinedUnit)

\* Parse after mu, err := ParseSymbol(sym)
ParseUnit(value, mu) ==
    IF mu.panic THEN Panic
    ELSE IF mu.err # NoError THEN [panic |-> FALSE, q |-> Undef, err |-> mu.err]
    ELSE [panic |-> FALSE, q |-> Quantity(value, mu.q.unit), err |-> NoError]

\* Parse after value, err := strconv.ParseFloat(f, 64)
ParseValue(reg, v, rest) ==
    IF ~v.ok THEN [panic |-> FALSE, q |-> Undef, err |-> ErrParseFloat]
    ELSE ParseUnit(v.value, ParseSymbol(reg, Trim(rest, {" ", "\r", "\n", "\t"})))

\* Parse after match := muRx.FindStringSubmatch(s)
ParseMatch(reg, match) ==
    IF Len(match) # 3 THEN [panic |-> FALSE, q |-> Undef, err |-> ErrInvalidQuantity]
    ELSE IF Count(match[2], ".") > 1
         THEN [panic |-> FALSE, q |-> Undef, err |-> ErrDecimalPoints]
    ELSE ParseValue(reg, ParseFloat(ReplaceAll(match[2], ",", <<>>)), match[3])

\* returns the quantity and the error
Parse(reg, s) == ParseMatch(reg, muRxMatch(s))

\* Quantity.Invalid
Invalid(m) == IsNil(m.unit)

\* check comparing the symbols instead of the dimension vectors
check_bySymbol(strict, a, b) ==
    strict /\ (IsNil(a.unit) \/ IsNil(b.unit) \/ a.unit.symbol # b.unit.symbol)

\* TRUE when check(a, b) panics; strict is PanicOnIncompatibleUnits
check(strict, a, b) ==
    strict /\ (IsNil(a.unit) \/ IsNil(b.unit)
               \/ ~haveSameExponents(a.unit.exponents, b.unit.exponents))

Neg(a) == Quantity(FNeg(a.value), a.unit)

Add(strict, a, b) ==
    IF check(strict, a, b) \/ IsNil(a.unit) \/ IsNil(b.unit) THEN Panic
    ELSE Ret(Quantity(FAdd(SIValue(a), SIValue(b)),
                      Unit(makeSymbol(a.unit.exponents), One, a.unit.exponents)))

Subtract(strict, a, b) == Add(strict, a, Neg(b))

\* ApplyOp accumulating the displayed value of b, not its SI value
ApplyOp_displayValue(op, result, b) ==
    IF op = "+=" THEN FAdd(result, b.value) ELSE FSub(result, b.value)

\* op(&result, b) for the func literal of Sum ("+=") or of Diff ("-=")
ApplyOp(op, result, b) ==
    IF op = "+=" THEN FAdd(result, SIValue(b)) ELSE FSub(result, SIValue(b))

\* the loop of multi over more[k..]
RECURSIVE multiLoop(_, _, _, _, _, _)
multiLoop(strict, a, op, more, k, result) ==
    IF k > Len(more) THEN [panic |-> FALSE, result |-> result]
    ELSE IF check(strict, a, more[k]) \/ IsNil(more[k].unit) THEN [panic |-> TRUE]
    ELSE multiLoop(strict, a, op, more, k + 1, ApplyOp(op, result, more[k]))

\* the statements of multi after the loop
multiResult(a, r) ==
    IF r.panic THEN Panic
    ELSE Ret(Quantity(r.result, Unit(makeSymbol(a.unit.exponents), One, a.unit.exponents)))

multi(strict, a, op, more) ==
    IF IsNil(a.unit) THEN Panic
    ELSE multiResult(a, multiLoop(strict, a, op, more, 1, SIValue(a)))

Sum(strict, a, more) == multi(strict, a, "+=", more)

Diff(strict, a, more) == multi(strict, a, "-=", more)

\* a call that returns the bool b
RetBool(b) == [panic |-> FALSE, b |-> b]

\* AreCompatible comparing the symbols instead of the dimension vectors
AreCompatible_bySymbol(a, b) ==
    IF IsNil(a.unit) \/ IsNil(b.unit) THEN Panic
    ELSE RetBool(a.unit.symbol = b.unit.symbol)

AreCompatible(a, b) ==
    IF IsNil(a.unit) \/ IsNil(b.unit) THEN Panic
    ELSE RetBool(haveSameExponents(a.unit.exponents, b.unit.exponents))

\* Abs(a Quantity)
AbsQ(a) == IF FLess(a.value, Zero) THEN Neg(a) ELSE a

\* Equal after d := Subtract(a, b)
EqualWithin(d, epsilon) ==
    IF d.panic \/ IsNil(epsilon.unit) THEN Panic
    ELSE RetBool(FLess(AbsQ(d.q).value, FMul(epsilon.value, epsilon.unit.factor)))

Equal(strict, a, b, epsilon) ==
    IF check(strict, a, b) \/ check(strict, a, epsilon) THEN Panic
    ELSE EqualWithin(Subtract(strict, a, b), epsilon)

ToSI(m) ==
    IF IsNil(m.unit) THEN Panic
    ELSE Ret(Quantity(FMul(m.value, toSI(m.unit).factor), toSI(m.unit).si))

\* Normalize replacing the unit and keeping the value
Normalize_keepsValue(m) ==
    IF IsNil(m.unit) THEN Panic
    ELSE Ret(Quantity(m.value, Unit(makeSymbol(m.unit.exponents), One, m.unit.exponents)))

\* what m is after m.Normalize()
Normalize(m) ==
    IF IsNil(m.unit) THEN Panic
    ELSE Ret(Quantity(FMul(m.value, m.unit.factor),
                      Unit(makeSymbol(m.unit.exponents), One, m.unit.exponents)))

\* More after the two ToSI calls
MoreSI(a, b) == IF a.panic \/ b.panic THEN Panic ELSE RetBool(FLess(b.q.value, a.q.value))

More(strict, a, b) == IF check(strict, a, b) THEN Panic ELSE MoreSI(ToSI(a), ToSI(b))

\* Less after the two ToSI calls
LessSI(a, b) == IF a.panic \/ b.panic THEN Panic ELSE RetBool(FLess(a.q.value, b.q.value))

\* Less comparing the displayed values
Less_displayValue(strict, a, b) ==
    IF check(strict, a, b) THEN Panic ELSE RetBool(FLess(a.value, b.value))

Less(strict, a, b) == IF check(strict, a, b) THEN Panic ELSE LessSI(ToSI(a), ToSI(b))

\* Quantities.Swap on the slice a
Swap(a, i, j) == [a EXCEPT ![i] = a[j], ![j] = a[i]]

\* sort.Sort(a) on a slice of fewer than 12 elements is an insertion sort
\* over Quantities.Less and Quantities.Swap: the inner loop moving a[j] down
RECURSIVE insertDown(_, _, _)
\* the inner loop after Quantities.Less(j, j-1) returned less
insertLess(strict, a, j, less) ==
    IF less.panic THEN [panic |-> TRUE]
    ELSE IF less.b THEN insertDown(strict, Swap(a, j, j - 1), j - 1)
    ELSE [panic |-> FALSE, a |-> a]

insertDown(strict, a, j) ==
    IF j > 1 THEN insertLess(strict, a, j, Less(strict, a[j], a[j - 1]))
    ELSE [panic |-> FALSE, a |-> a]

\* the outer loop, r being the slice after the elements before i
RECURSIVE insertionSort(_, _, _)
insertionSort(strict, r, i) ==
    IF r.panic \/ i > Len(r.a) THEN r
    ELSE insertionSort(strict, insertDown(strict, r.a, i), i + 1)

\* sort.Sort(Quantities(a))
Sort(strict, a) == insertionSort(strict, [panic |-> FALSE, a |-> a], 2)

(***************************************************************************)
(* Resource (src/resource/resource.go) with its Context                    *)
(* (src/context/context.go). A *Resource is the record it points to, the   *)
(* nil pointer is NilResource; ctx is the unit of its Context. A method    *)
(* returns the Resource after the call in h.                               *)
(***************************************************************************)
Resource(min, max, balance, ctx) ==
    [min |-> min, max |-> max, balance |-> balance, ctx |-> ctx]

NilResource == [nil |-> TRUE]

\* Quantity.Convert, called by Context.Convert with the unit of the Context
Convert(q, unit) ==
    IF IsNil(q.unit) \/ IsNil(unit) THEN Panic
    ELSE Ret(Quantity(FDiv(SIValue(q), unit.factor), unit))

\* x || y of two calls that return a bool: y runs when x returned false
Either(x, y) == IF x.panic THEN Panic ELSE IF x.b THEN x ELSE y

\* !x
Not(x) == IF x.panic THEN Panic ELSE RetBool(~x.b)

\* New after ctx, _ = context.DefineContext("", min.Symbol(), us.DefaultFormat):
\* g is what UnitFor returned, ok what AreCompatible(min, max) && Less(min, max)
\* gave, cmin and cmax the converted bounds
Created(g, ok, cmin, cmax, min) ==
    IF ok.panic THEN [panic |-> TRUE, units |-> g.units]
    ELSE IF ok.b THEN
        IF cmin.panic \/ cmax.panic THEN [panic |-> TRUE, units |-> g.units]
        ELSE [panic |-> FALSE, h |-> Resource(cmin.q, cmax.q, min, g.u), units |-> g.units]
    ELSE [panic |-> FALSE, h |-> NilResource, units |-> g.units]

\* New after DefineContext
Contexted(strict, g, min, max) ==
    IF g.panic THEN [panic |-> TRUE, units |-> g.units]
    ELSE Created(g, Not(Either(Not(AreCompatible(min, max)), Not(Less(strict, min, max)))),
                 Convert(min, g.u), Convert(max, g.u), min)

\* New(min, max, "")
New(reg, strict, min, max) ==
    IF IsNil(min.unit) THEN [panic |-> TRUE, units |-> reg]
    ELSE Contexted(strict, UnitFor(reg, min.unit.symbol), min, max)

outOfBounds(strict, h, q) == Either(Less(strict, q, h.min), More(strict, q, h.max))

\* a method that returns false when refused holds and assigns otherwise
Assigned(h, refused, h2) ==
    IF refused.panic THEN [panic |-> TRUE, h |-> h]
    ELSE IF refused.b THEN [panic |-> FALSE, ok |-> FALSE, h |-> h]
    ELSE [panic |-> FALSE, ok |-> TRUE, h |-> h2]

Set(strict, h, q) ==
    IF h = NilResource THEN [panic |-> TRUE, h |-> h]
    ELSE Assigned(h, Either(Not(AreCompatible(h.balance, q)), outOfBounds(strict, h, q)),
                  [h EXCEPT !.balance = q])

\* Balanced assigning the new balance before it looks at the bounds
Balanced_assignsFirst(strict, h, n) ==
    IF n.panic THEN [panic |-> TRUE, h |-> h]
    ELSE Assigned([h EXCEPT !.balance = n.q], outOfBounds(strict, h, n.q),
                  [h EXCEPT !.balance = n.q])

\* Deposit and Withdraw once n is calculated
Balanced(strict, h, n) ==
    IF n.panic THEN [panic |-> TRUE, h |-> h]
    ELSE Assigned(h, outOfBounds(strict, h, n.q), [h EXCEPT !.balance = n.q])

Deposit(strict, h, q) ==
    IF h = NilResource THEN [panic |-> TRUE, h |-> h]
    ELSE IF AreCompatible(h.balance, q).panic \/ ~AreCompatible(h.balance, q).b
         THEN Assigned(h, Not(AreCompatible(h.balance, q)), h)
         ELSE Balanced(strict, h, Add(strict, h.balance, q))

Withdraw(strict, h, q) ==
    IF h = NilResource THEN [panic |-> TRUE, h |-> h]
    ELSE IF AreCompatible(h.balance, q).panic \/ ~AreCompatible(h.balance, q).b
         THEN Assigned(h, Not(AreCompatible(h.balance, q)), h)
         ELSE Balanced(strict, h, Subtract(strict, h.balance, q))

ErrPercentage == "percentage not in range 0..1"

\* WithdrawPct once the new balance n and the converted amount are calculated
Taken(h, n, taken) ==
    IF n.panic THEN [panic |-> TRUE, h |-> h]
    ELSE IF taken.panic THEN [panic |-> TRUE, h |-> [h EXCEPT !.balance = n.q]]
    ELSE [panic |-> FALSE, q |-> taken.q, err |-> NoError, h |-> [h EXCEPT !.balance = n.q]]

\* WithdrawPct after taken := us.MultFac(h.balance, percentage/100.0)
Deducted(strict, h, taken) ==
    Taken(h, Subtract(strict, h.balance, taken), Convert(taken, h.ctx))

WithdrawPct(strict, h, percentage) ==
    IF FLess(percentage, Zero) \/ FLess(Int2F(100), percentage)
    THEN [panic |-> FALSE, q |-> ZeroQuantity, err |-> ErrPercentage, h |-> h]
    ELSE IF h = NilResource THEN [panic |-> TRUE, h |-> h]
    ELSE Deducted(strict, h, MultFac(h.balance, FDiv(percentage, Int2F(100))).q)

Min(strict, h, min) ==
    IF h = NilResource THEN [panic |-> TRUE, h |-> h]
    ELSE Assigned(h, Either(Not(AreCompatible(h.balance, min)), More(strict, min, h.balance)),
                  [h EXCEPT !.min = min])

Max(strict, h, max) ==
    IF h = NilResource THEN [panic |-> TRUE, h |-> h]
    ELSE Assigned(h, Either(Not(AreCompatible(h.balance, max)), Less(strict, max, h.balance)),
                  [h EXCEPT !.max = max])

(***************************************************************************)
(* the program: the registry, the policy flag, the quantities and the      *)
(* Resource the client holds, and the last call with its result            *)
(***************************************************************************)
VARIABLES
    units,                      \* var units map[string]*Unit
    PanicOnIncompatibleUnits,   \* read from GOUNITSPANIC at start
    held,                       \* the quantities returned to the client so far
    last,                       \* the last call: its arguments and what it returned
    unitsBefore,                \* the registry when the last call began
    resource                    \* the *Resource the client holds

vars == <<units, PanicOnIncompatibleUnits, held, last, unitsBefore, resource>>

\* most registry entries added by lookups and Define, most quantities held
MaxAdded == 1
MaxHeld == 2

Added(reg) == Cardinality(DOMAIN reg) - Cardinality(DOMAIN InitialUnits)

\* the calls that would grow the registry beyond MaxAdded are not made
Fits(reg) == Added(reg) <= MaxAdded

\* unit expressions given to ParseSymbol
Expressions ==
    { <<"m">>, <<"k", "g">>, <<"g">>, <<"s">>, <<"h">>, <<"N">>, <<"c", "d">>, <<"m", "i", "n">>,
      <<"m", "b", "a", "r">>, <<"s", "q", " ", "i", "n">>, <<"L", "/", "1", "0", "0", "k", "m">>,
      <<>>, <<"m", "g">>, <<"d", "a", "g">>, <<"d", "a", "N">>, <<"k", "V">>, <<"u", "f", "t">>,
      <<"m", "m", "i">>, <<"d", "z">>, <<"e", "g", "g">>, <<"M", "b", "a", "r">>, <<"k">>,
      <<"k", "0xC2", "0xA4">>, <<"d", "a", "b">>, <<"k", "a", "b">>, <<"k", "s", "q", " ", "m">>,
      <<"k", "m", "/", "s", "2">>, <<"k", "g", ".", "m", "/", "s", "2">>,
      <<"N", ".", "m", "-", "2">>, <<"m", "-", "1">>, <<"h", "-", "2", ".", "k", "m">>,
      <<"k", "g", "/", "f", "t", "2">>, <<"n", "J", "/", "n", "s">>, <<"$", "/", "d", "a", "m">>,
      <<"m", "/", "h", "2", ".", "s">>, <<"k", "m", "/", "h">>, <<"m", "/", "s", "-", "2">>,
      <<"m", "/", "s", "-", "0">>, <<"m", "-", "2", "/", "s", "-", "1">>,
      <<"m", "/", "s", "/", "s">>, <<"a", "/", "b", "/", "c">>,
      <<"m", "/", "s", "-", "2", "/", "h">>, <<"m", "^", "2">>, <<"m", "*", "s">>,
      <<"N", "*", "m", "^", "-", "2">>, <<"m", "2", "5", "6">>, <<"m", "1", "2", "8">>,
      <<"m", "-", "1", "2", "9">>, <<"m", "1", "2", "7", ".", "m">>,
      <<"m", "/", "s", "1", "2", "8">>, <<"k", "m", "2">>, <<"m", "0">>, <<"m", ".", ".", "s">>,
      <<"2", "m">>, <<"m", "-">>, <<"m", "/">>, <<"/", "m">>, <<"m", ".", "2">>, <<"y", "m">>,
      <<"z", "m">>, <<"a", "m">>, <<"f", "m">>, <<"p", "m">>, <<"n", "m">>, <<"u", "m">>,
      <<"m", "m">>, <<"c", "m">>, <<"d", "m">>, <<"d", "a", "m">>, <<"h", "m">>, <<"k", "m">>,
      <<"M", "m">>, <<"G", "m">>, <<"T", "m">>, <<"P", "m">>, <<"E", "m">>, <<"Z", "m">>,
      <<"Y", "m">> }

\* symbols given to UnitFor
LookupSymbols ==
    { <<"m">>, <<"L", "/", "1", "0", "0", "k", "m">>, <<>>, <<"k", "m">>, <<"m", "^", "2">>,
      <<"m", "2">>, <<"d", "z">>, <<"m", "/", "s", "-", "2">>, <<"k">>, <<"2", "m">>,
      <<"u", "f", "t">>, <<"a", "/", "b", "/", "c">> }

\* arguments given to Define: new symbol, factor, base expression
DefineArgs ==
    { <<<<"a", "b">>, One, <<"m">>>>,
      <<<<"s", "q", " ", "m">>, One, <<"m", "2">>>>,
      <<<<"k", "m">>, Int2F(5), <<"m">>>>,
      <<<<"m">>, Int2F(2), <<"s">>>>,
      <<<<"z", "z">>, Int2F(3), <<"d", "z">>>>,
      <<<<"m", "2">>, Int2F(5), <<"m">>>> }

Init ==
    /\ units = InitialUnits
    /\ PanicOnIncompatibleUnits \in BOOLEAN
    /\ held = <<>>
    /\ last = [op |-> "init"]
    /\ unitsBefore = InitialUnits
    /\ resource = NilResource

CallParseSymbol(s) ==
    /\ last' = [op |-> "ParseSymbol", s |-> s, r |-> ParseSymbol(units, s)]
    /\ unitsBefore' = units
    /\ UNCHANGED <<units, PanicOnIncompatibleUnits, held, resource>>

\* a call that may write the registry and returns r, r.units being the
\* registry after it
Returned(call, r) ==
    /\ Fits(r.units)
    /\ units' = r.units
    /\ last' = [call EXCEPT !.r = r]
    /\ unitsBefore' = units
    /\ UNCHANGED <<PanicOnIncompatibleUnits, resource>>

CallUnitFor(s) ==
    /\ Returned([op |-> "UnitFor", s |-> s, r |-> Panic], UnitFor(units, s))
    /\ UNCHANGED held

CallDefine(symbol, factor, base) ==
    /\ Returned([op |-> "Define", symbol |-> symbol, factor |-> factor, base |-> base,
                 r |-> Panic],
                Define(units, symbol, factor, base))
    /\ UNCHANGED held

Next ==
    \/ \E s \in Expressions : CallParseSymbol(s)
    \/ \E s \in LookupSymbols : CallUnitFor(s)
    \/ \E d \in DefineArgs : CallDefine(d[1], d[2], d[3])

Spec == Init /\ [][Next]_vars

\* the registry operations alone
NextRegistry ==
    \/ \E s \in LookupSymbols : CallUnitFor(s)
    \/ \E d \in DefineArgs : CallDefine(d[1], d[2], d[3])

SpecRegistry == Init /\ [][NextRegistry]_vars

(***************************************************************************)
(* the client building quantities and calculating with them                *)
(***************************************************************************)
\* arguments given to Q: value and symbol
QArgs ==
    { <<Int2F(1), <<"k", "m">>>>, <<Int2F(3), <<"m">>>>,
      <<Int2F(2), <<"s">>>>, <<Int2F(5), <<>>>> }

\* exponents given to Power
PowerArgs == {-1, 2}

\* target symbols given to ConvertTo
ConvertSymbols ==
    { <<"m">>, <<"k", "m">>, <<"m", "i", "n">>, <<"s">>, <<"s", "q", "m">>, <<"h", "a">>,
      <<>>, <<"d", "z">> }

\* the client keeps a returned quantity while it holds fewer than MaxHeld
Keep(keep, r) ==
    IF keep /\ ~r.panic /\ Len(held) < MaxHeld THEN Append(held, r.q) ELSE held

\* the operand lists of Sum and Diff: up to two of the held quantities
MoreArgs ==
    {<<>>} \cup {<<held[j]>> : j \in DOMAIN held}
           \cup {<<held[j], held[k]>> : j \in DOMAIN held, k \in DOMAIN held}

\* a call that may write the registry and returns a quantity
ReturnedQuantity(call, keep, r) ==
    /\ Returned(call, r)
    /\ held' = Keep(keep, r)

CallQ(value, symbol) ==
    ReturnedQuantity([op |-> "Q", value |-> value, s |-> symbol, r |-> Panic], TRUE,
                     Q(units, value, symbol))

\* Calculated registering the unit of the quantity it returns
Calculated_caching(call, keep, r) ==
    /\ last' = [call EXCEPT !.r = r]
    /\ held' = Keep(keep, r)
    /\ unitsBefore' = units
    /\ units' = IF r.panic \/ "q" \notin DOMAIN r THEN units
                ELSE Store(units, r.q.unit.symbol, r.q.unit)
    /\ UNCHANGED <<PanicOnIncompatibleUnits, resource>>

\* a call that leaves the registry alone and returns r
Calculated(call, keep, r) ==
    /\ last' = [call EXCEPT !.r = r]
    /\ held' = Keep(keep, r)
    /\ unitsBefore' = units
    /\ UNCHANGED <<units, PanicOnIncompatibleUnits, resource>>

CallAdd(i, j, keep) ==
    Calculated([op |-> "Add", a |-> held[i], more |-> <<held[j]>>, r |-> Panic], keep,
               Add(PanicOnIncompatibleUnits, held[i], held[j]))

CallSubtract(i, j, keep) ==
    Calculated([op |-> "Subtract", a |-> held[i], more |-> <<held[j]>>, r |-> Panic], keep,
               Subtract(PanicOnIncompatibleUnits, held[i], held[j]))

CallMult(i, j, keep) ==
    Calculated([op |-> "Mult", a |-> held[i], more |-> <<held[j]>>, r |-> Panic], keep,
               Mult(held[i], held[j]))

CallDiv(i, j, keep) ==
    Calculated([op |-> "Div", a |-> held[i], more |-> <<held[j]>>, r |-> Panic], keep,
               Div(held[i], held[j]))

CallReciprocal(i, keep) ==
    Calculated([op |-> "Reciprocal", a |-> held[i], more |-> <<>>, r |-> Panic], keep,
               Reciprocal(held[i]))

CallPower(i, n, keep) ==
    Calculated([op |-> "Power", a |-> held[i], more |-> <<>>, n |-> n, r |-> Panic], keep,
               Power(held[i], n))

CallSum(i, more, keep) ==
    Calculated([op |-> "Sum", a |-> held[i], more |-> more, r |-> Panic], keep,
               Sum(PanicOnIncompatibleUnits, held[i], more))

CallDiff(i, more, keep) ==
    Calculated([op |-> "Diff", a |-> held[i], more |-> more, r |-> Panic], keep,
               Diff(PanicOnIncompatibleUnits, held[i], more))

CallConvertTo(i, s, keep) ==
    ReturnedQuantity([op |-> "ConvertTo", a |-> held[i], s |-> s, r |-> Panic], keep,
                     ConvertTo(units, held[i], s))

\* quantities made by Q, and one calculation on them
NextArith ==
    \/ \E a \in QArgs : CallQ(a[1], a[2])
    \/ \E i, j \in DOMAIN held : CallAdd(i, j, FALSE)
    \/ \E i, j \in DOMAIN held : CallSubtract(i, j, FALSE)
    \/ \E i, j \in DOMAIN held : CallMult(i, j, FALSE)
    \/ \E i, j \in DOMAIN held : CallDiv(i, j, FALSE)
    \/ \E i \in DOMAIN held : CallReciprocal(i, FALSE)
    \/ \E i \in DOMAIN held, n \in PowerArgs : CallPower(i, n, FALSE)
    \/ \E i \in DOMAIN held, more \in MoreArgs : CallSum(i, more, FALSE)
    \/ \E i \in DOMAIN held, more \in MoreArgs : CallDiff(i, more, FALSE)

SpecArith == Init /\ [][NextArith]_vars

\* quantities made by Q, by a calculation or by a conversion, and converted
NextConvert ==
    \/ \E a \in QArgs : CallQ(a[1], a[2])
    \/ \E i, j \in DOMAIN held : CallMult(i, j, TRUE)
    \/ \E i \in DOMAIN held : CallReciprocal(i, TRUE)
    \/ \E i \in DOMAIN held, s \in ConvertSymbols : CallConvertTo(i, s, TRUE)

SpecConvert == Init /\ [][NextConvert]_vars

CallEqual(a, b, epsilon) ==
    Calculated([op |-> "Equal", a |-> a, b |-> b, epsilon |-> epsilon, r |-> Panic], FALSE,
               Equal(PanicOnIncompatibleUnits, a, b, epsilon))

CallMore(a, b) ==
    Calculated([op |-> "More", a |-> a, b |-> b, r |-> Panic], FALSE,
               More(PanicOnIncompatibleUnits, a, b))

CallLess(a, b) ==
    Calculated([op |-> "Less", a |-> a, b |-> b, r |-> Panic], FALSE,
               Less(PanicOnIncompatibleUnits, a, b))

CallAreCompatible(a, b) ==
    Calculated([op |-> "AreCompatible", a |-> a, b |-> b, r |-> Panic], FALSE,
               AreCompatible(a, b))

CallToSI(a) == Calculated([op |-> "ToSI", a |-> a, r |-> Panic], FALSE, ToSI(a))

CallNormalize(a) == Calculated([op |-> "Normalize", a |-> a, r |-> Panic], FALSE, Normalize(a))

\* sort.Sort(Quantities(a)); r.a is the slice after the call
CallSort(a) ==
    Calculated([op |-> "Sort", a |-> a, r |-> Panic], FALSE,
               Sort(PanicOnIncompatibleUnits, a))

CallParse(s, keep) ==
    Calculated([op |-> "Parse", s |-> s, r |-> Panic], keep, Parse(units, s))

\* texts given to Parse
ParseTexts ==
    { <<"5", " ", "m">>, <<"5", "m">>, <<"-", "1", ",", "5", "0", "0", " ", "N", ".", "m", "/", "s", "2">>,
      <<"1", ".", "5", " ", "k", "m">>, <<" ", "\t", "2", "\t", "k", "m", " ">>, <<"-", ".", "5", " ", "s">>,
      <<"5", ".", " ", "m">>, <<"1", ".", "5", ".", "3", " ", "m">>, <<",", " ", "m">>,
      <<".", " ", "m">>, <<"-", ",", ".", " ", "m">>, <<"1", ",", "0", ",", "0", " ", "m">>,
      <<"m">>, <<>>, <<"5">>, <<"5", " ">>, <<"-", "-", "5", " ", "m">>, <<"+", "5", " ", "m">>,
      <<"-", " ", "5", " ", "m">>, <<"5", " ", "d", "z">>, <<"5", " ", "m", "/", "s", "/", "s">>,
      <<"1", "e", "3", " ", "m">>, <<"5", " ", "m", "2">>, <<"5", " ", "a", "b">>,
      <<"5", " ", "k", "m">>, <<"5", "\n", "m">>, <<"5", " ", "m", "\n">>,
      <<"5", " ", "m", "\r">>, <<"5", " ", "L", "/", "1", "0", "0", "k", "m">> }

\* texts parsed while the registry is extended by Define
NextParse ==
    \/ \E s \in ParseTexts : CallParse(s, FALSE)
    \/ \E d \in DefineArgs : CallDefine(d[1], d[2], d[3])

SpecParse == Init /\ [][NextParse]_vars

CallIn(i, s, keep) ==
    ReturnedQuantity([op |-> "In", a |-> held[i], s |-> s, r |-> Panic], keep,
                     In(units, held[i], s))

CallHasCompatibleUnit(i, s) ==
    /\ \E r \in HasCompatibleUnit(units, held[i], s) :
          Returned([op |-> "HasCompatibleUnit", a |-> held[i], s |-> s, r |-> Panic], r)
    /\ UNCHANGED held

\* arguments given to Q, texts given to Parse and symbols given to ConvertTo
\* and In by a client that goes on with what the failed calls returned
InvalidQArgs == { <<Int2F(1), <<"k", "m">>>>, <<Int2F(3), <<"s">>>> }
InvalidTexts == { <<"5", " ", "m">>, <<"5", " ", "d", "z">> }
InvalidSymbols == { <<"s">>, <<"d", "z">> }

\* quantities made by Q, Parse, ConvertTo and In, kept whether or not the
\* call succeeded, and one operation on them
NextInvalid ==
    \/ \E a \in InvalidQArgs : CallQ(a[1], a[2])
    \/ \E s \in InvalidTexts : CallParse(s, TRUE)
    \/ \E i \in DOMAIN held, s \in InvalidSymbols : CallConvertTo(i, s, TRUE)
    \/ \E i \in DOMAIN held, s \in InvalidSymbols : CallIn(i, s, TRUE)
    \/ \E i, j \in DOMAIN held : CallAdd(i, j, FALSE)
    \/ \E i, j \in DOMAIN held : CallSubtract(i, j, FALSE)
    \/ \E i, j \in DOMAIN held : CallMult(i, j, FALSE)
    \/ \E i, j \in DOMAIN held : CallDiv(i, j, FALSE)
    \/ \E i \in DOMAIN held, n \in PowerArgs : CallPower(i, n, FALSE)
    \/ \E i \in DOMAIN held : CallReciprocal(i, FALSE)
    \/ \E i, j \in DOMAIN held : CallAreCompatible(held[i], held[j])
    \/ \E i, j \in DOMAIN held : CallEqual(held[i], held[j], held[i])
    \/ \E i, j \in DOMAIN held : CallLess(held[i], held[j])
    \/ \E i \in DOMAIN held : CallToSI(held[i])

SpecInvalid == Init /\ [][NextInvalid]_vars

\* arguments given to Q before the operations that check compatibility
PolicyQArgs ==
    { <<Int2F(1), <<"k", "m">>>>, <<Int2F(-2), <<"m">>>>, <<Int2F(3), <<"s">>>> }

\* quantities made by Q, and one operation that checks their compatibility
NextPolicy ==
    \/ \E a \in PolicyQArgs : CallQ(a[1], a[2])
    \/ \E i, j \in DOMAIN held : CallAdd(i, j, FALSE)
    \/ \E i, j \in DOMAIN held : CallSubtract(i, j, FALSE)
    \/ \E i \in DOMAIN held, more \in MoreArgs : CallSum(i, more, FALSE)
    \/ \E i \in DOMAIN held, more \in MoreArgs : CallDiff(i, more, FALSE)
    \/ \E i, j, k \in DOMAIN held : CallEqual(held[i], held[j], held[k])
    \/ \E i, j \in DOMAIN held : CallMore(held[i], held[j])
    \/ \E i, j \in DOMAIN held : CallLess(held[i], held[j])

SpecPolicy == Init /\ [][NextPolicy]_vars

\* the quantity Q(value, symbol) returns to a client that starts with the
\* registry of init
Sample(value, symbol) == Q(InitialUnits, value, symbol).q

\* three lengths in three display units: the elements of the slices given
\* to sort.Sort
SortSamples ==
    { Sample(Int2F(1), <<"k", "m">>), Sample(Int2F(999), <<"m">>),
      Sample(Int2F(-200), <<"c", "m">>) }

\* the same, a length equal to one of them in another display unit, and a
\* duration
OrderSamples ==
    SortSamples \cup { Sample(Int2F(100000), <<"c", "m">>), Sample(Int2F(3), <<"s">>) }

\* the same, and speeds and pressures written as a symbol of the table and
\* as an expression
CompatSamples ==
    OrderSamples \cup
    { Sample(Int2F(2), <<"k", "p", "h">>), Sample(Int2F(1), <<"k", "m", "/", "h">>),
      Sample(Int2F(1), <<"P", "a">>), Sample(Int2F(2), <<"N", ".", "m", "-", "2">>) }

\* longest slice given to sort.Sort
MaxSlice == 3

Slices == UNION {[1..n -> SortSamples] : n \in 0..MaxSlice}

\* one comparison, normalisation or sort of quantities made by Q
NextOrder ==
    \/ \E a, b \in OrderSamples : CallMore(a, b)
    \/ \E a, b \in OrderSamples : CallLess(a, b)
    \/ \E a, b \in CompatSamples : CallAreCompatible(a, b)
    \/ \E a \in CompatSamples : CallToSI(a)
    \/ \E a \in CompatSamples : CallNormalize(a)
    \/ \E a \in Slices : CallSort(a)

SpecOrder == Init /\ [][NextOrder]_vars

\* what the calls of the registry and the pure operations are given
FrameDefines == { <<<<"a", "b">>, One, <<"m">>>>, <<<<"m">>, Int2F(2), <<"s">>>> }
FrameLookups == { <<"m", "^", "2">>, <<"d", "z">> }
FrameQArgs == { <<Int2F(1), <<"m">>>>, <<Int2F(3), <<"c", "m">>>> }
FrameSymbols == { <<"c", "m">>, <<"d", "z">> }
FrameTexts == { <<"5", " ", "c", "m">>, <<"5", " ", "d", "z">> }

\* the calls that may write the registry, and the pure operations
NextFrame ==
    \/ \E d \in FrameDefines : CallDefine(d[1], d[2], d[3])
    \/ \E s \in FrameLookups : CallUnitFor(s)
    \/ \E a \in FrameQArgs : CallQ(a[1], a[2])
    \/ \E i \in DOMAIN held, s \in FrameSymbols : CallConvertTo(i, s, FALSE)
    \/ \E i \in DOMAIN held, s \in FrameSymbols : CallIn(i, s, FALSE)
    \/ \E i \in DOMAIN held, s \in FrameSymbols : CallHasCompatibleUnit(i, s)
    \/ \E s \in FrameSymbols : CallParseSymbol(s)
    \/ \E s \in FrameTexts : CallParse(s, FALSE)
    \/ \E i, j \in DOMAIN held : CallAdd(i, j, FALSE)
    \/ \E i, j \in DOMAIN held : CallSubtract(i, j, FALSE)
    \/ \E i, j \in DOMAIN held : CallMult(i, j, FALSE)
    \/ \E i, j \in DOMAIN held : CallDiv(i, j, FALSE)
    \/ \E i \in DOMAIN held, n \in PowerArgs : CallPower(i, n, FALSE)
    \/ \E i \in DOMAIN held : CallReciprocal(i, FALSE)
    \/ \E i, j \in DOMAIN held : CallSum(i, <<held[j]>>, FALSE)
    \/ \E i, j \in DOMAIN held : CallDiff(i, <<held[j]>>, FALSE)
    \/ \E i \in DOMAIN held : CallToSI(held[i])
    \/ \E i \in DOMAIN held : CallNormalize(held[i])

SpecFrame == Init /\ [][NextFrame]_vars

\* the exponents and the second exponents of the vectors given to makeSymbol
MaxExponent == 3
SymbolExponents == (-MaxExponent..MaxExponent) \ {0}
PairExponents == {-2, 1}

\* a dimension vector with the exponent e at i and f at j
Vector(i, e, j, f) ==
    [k \in 1..nBaseUnits |-> IF k = i THEN e ELSE IF k = j THEN f ELSE 0]

\* the zero vector, the vectors with one exponent, and those with two
Vectors ==
    {emptyExponents}
    \cup {Vector(i, e, i, e) : i \in 1..nBaseUnits, e \in SymbolExponents}
    \cup {Vector(i, e, i + 1, f) : i \in 1..(nBaseUnits - 1), e \in PairExponents,
                                   f \in PairExponents}

CallMakeSymbol(expon) ==
    Calculated([op |-> "makeSymbol", expon |-> expon, r |-> <<>>], FALSE, makeSymbol(expon))

\* the symbols of dimension vectors
NextSymbol == \E expon \in Vectors : CallMakeSymbol(expon)

SpecSymbol == Init /\ [][NextSymbol]_vars

\* New once it returned r: the client holds the Resource it returned
Newed(call, r) ==
    /\ Fits(r.units)
    /\ units' = r.units
    /\ resource' = IF r.panic THEN resource ELSE r.h
    /\ last' = [call EXCEPT !.r = r]
    /\ unitsBefore' = units
    /\ UNCHANGED <<PanicOnIncompatibleUnits, held>>

CallNew(min, max) ==
    Newed([op |-> "New", min |-> min, max |-> max, r |-> Panic],
          New(units, PanicOnIncompatibleUnits, min, max))

\* a call of a method of the Resource: h is the Resource before the call,
\* r.h the Resource after it
Handled(call, r) ==
    /\ last' = [call EXCEPT !.r = r]
    /\ resource' = r.h
    /\ unitsBefore' = units
    /\ UNCHANGED <<units, PanicOnIncompatibleUnits, held>>

CallSet(q) ==
    Handled([op |-> "Set", q |-> q, h |-> resource, r |-> Panic],
            Set(PanicOnIncompatibleUnits, resource, q))

CallDeposit(q) ==
    Handled([op |-> "Deposit", q |-> q, h |-> resource, r |-> Panic],
            Deposit(PanicOnIncompatibleUnits, resource, q))

CallWithdraw(q) ==
    Handled([op |-> "Withdraw", q |-> q, h |-> resource, r |-> Panic],
            Withdraw(PanicOnIncompatibleUnits, resource, q))

CallWithdrawPct(percentage) ==
    Handled([op |-> "WithdrawPct", percentage |-> percentage, h |-> resource, r |-> Panic],
            WithdrawPct(PanicOnIncompatibleUnits, resource, percentage))

CallMin(q) ==
    Handled([op |-> "Min", q |-> q, h |-> resource, r |-> Panic],
            Min(PanicOnIncompatibleUnits, resource, q))

CallMax(q) ==
    Handled([op |-> "Max", q |-> q, h |-> resource, r |-> Panic],
            Max(PanicOnIncompatibleUnits, resource, q))

\* the quantities given to New and to the methods of the Resource
ResourceQuantities ==
    { Sample(Int2F(1), <<"k", "m">>), Sample(Int2F(2000), <<"m">>), Sample(Int2F(3), <<"s">>) }

\* the percentages given to WithdrawPct
Percentages == { Int2F(-1), Zero, Int2F(100), Int2F(101) }

\* one Resource: created by New, then used through its methods
NextResource ==
    \/ \E min, max \in ResourceQuantities : resource = NilResource /\ CallNew(min, max)
    \/ \E q \in ResourceQuantities : resource # NilResource /\ CallSet(q)
    \/ \E q \in ResourceQuantities : resource # NilResource /\ CallDeposit(q)
    \/ \E q \in ResourceQuantities : resource # NilResource /\ CallWithdraw(q)
    \/ \E percentage \in Percentages : resource # NilResource /\ CallWithdrawPct(percentage)
    \/ \E q \in ResourceQuantities : resource # NilResource /\ CallMin(q)
    \/ \E q \in ResourceQuantities : resource # NilResource /\ CallMax(q)

SpecResource == Init /\ [][NextResource]_vars

(***************************************************************************)
(* properties of the calculations and conversions                          *)
(***************************************************************************)
ArithmeticOps == {"Add", "Subtract", "Mult", "Div", "Reciprocal", "Power", "Sum", "Diff"}

\* C1: the result of each of Add, Subtract, Mult, Div, Reciprocal, Power, Sum
\* and Diff carries a unit whose conversion factor is exactly 1
C1_ResultInSI ==
    last.op \in ArithmeticOps /\ ~last.r.panic => last.r.q.unit.factor = One

\* a call of ParseSymbol that returned without an error
Succeeded(r) == ~r.panic /\ r.err = NoError

\* the symbol s resolves in the registry reg: it is registered or it parses
Resolves(reg, s) == s \in DOMAIN reg \/ Succeeded(ParseSymbol(reg, s))

\* the unit a resolving symbol s resolves to
Resolved(reg, s) == IF s \in DOMAIN reg THEN reg[s] ELSE ParseSymbol(reg, s).q.unit

\* s resolves to a unit with the dimension vector of q
Compatible(reg, q, s) ==
    Resolves(reg, s) /\ Resolved(reg, s).exponents = q.unit.exponents

\* C2: q.ConvertTo(s) returns ok = false and does not panic whenever s does not
\* resolve to a unit or resolves to a unit whose dimension vector differs from
\* the one of q
C2_FailedConversion ==
    last.op = "ConvertTo" /\ ~IsNil(last.a.unit) /\ ~Compatible(unitsBefore, last.a, last.s)
        => ~last.r.panic /\ ~last.r.ok

\* r is q converted to the unit t
Converts(q, t, r) ==
    /\ ~r.panic /\ r.ok
    /\ r.q.unit = t
    /\ FMul(r.q.value, t.factor) = FMul(q.value, q.unit.factor)

\* back is the conversion back to the symbol of q, and it recovers the value of q
RoundTrip(q, back) == ~back.panic /\ back.ok /\ back.q.value = q.value

\* C3: when s resolves to a unit t with the dimension vector of q, q.ConvertTo(s)
\* returns ok = true and r with unit t and r.value * t.factor = q.value * q.factor,
\* q is unchanged, and converting r back to the symbol of q recovers q.value
C3_Conversion ==
    last.op = "ConvertTo" /\ ~IsNil(last.a.unit) /\ Compatible(unitsBefore, last.a, last.s)
        => /\ Converts(last.a, Resolved(unitsBefore, last.s), last.r)
           /\ \E i \in DOMAIN held : held[i] = last.a
           /\ RoundTrip(last.a, ConvertTo(units, last.r.q, last.a.unit.symbol))

(***************************************************************************)
(* properties of the parser and the registry                               *)
(***************************************************************************)
\* the factors of the expression s0 as ParseSymbol splits them
Factors(s0) == FactorsOf(Split(Rewritten(s0), "/"), 1)

SlashCount(s0) == Len(Split(Rewritten(s0), "/")) - 1

\* the factor has a name and an exponent below zero
NegativeExponent(match) == Len(match) = 3 /\ match[3] # <<>> /\ Atoi(match[3]) < 0

\* the factor f is a name that resolves, with an optional exponent that is not
\* negative after the '/'
FineMatch(reg, f, match) ==
    /\ Len(match) = 3
    /\ Resolve(reg, match[2]).ok
    /\ ~(f.i = 1 /\ NegativeExponent(match))

Fine(reg, f) == FineMatch(reg, f, SymbolRxMatch(f.symbol))

\* s0 has the form n1^x1. ... .nk^xk / d1^y1. ... .dm^ym with tokens that resolve
InGrammar(reg, s0) ==
    SlashCount(s0) <= 1 /\ \A k \in DOMAIN Factors(s0) : Fine(reg, Factors(s0)[k])

\* the exponent of a factor, a missing one counting as 1, negated after the '/'
SignedExponent(f, match) ==
    (IF f.i = 0 THEN 1 ELSE -1) * (IF match[3] = <<>> THEN 1 ELSE Atoi(match[3]))

\* f(u)^x and x * v(u) of one factor joined to the factor f and the vector v
DenotedStep(f, v, res, x) ==
    [factor |-> FMul(f, FPow(FMul(res.pf, res.u.factor), x)),
     exponents |-> [k \in 1..nBaseUnits |-> v[k] + x * res.u.exponents[k]]]

\* the product of the f(u)^x and the sum of the x * v(u), in exact integers
RECURSIVE Denoted(_, _, _)
DenotedNext(reg, factors, d, match) ==
    Denoted(reg, Tail(factors),
            DenotedStep(d.factor, d.exponents, Resolve(reg, match[2]),
                        SignedExponent(Head(factors), match)))

Denoted(reg, factors, d) ==
    IF factors = <<>> THEN d
    ELSE DenotedNext(reg, factors, d, SymbolRxMatch(Head(factors).symbol))

\* C4: for an expression n1^x1. ... .nk^xk / d1^y1. ... .dm^ym whose tokens all
\* resolve, ParseSymbol returns no error and a quantity with value 1 whose unit
\* has the product of the f(ni)^xi divided by the product of the f(dj)^yj as
\* factor and the sum of the xi * v(ni) minus the sum of the yj * v(dj) as
\* dimension vector
C4_Denotation ==
    last.op = "ParseSymbol" /\ InGrammar(units, last.s)
        => /\ Succeeded(last.r)
           /\ last.r.q.value = One
           /\ [factor |-> last.r.q.unit.factor, exponents |-> last.r.q.unit.exponents]
                  = Denoted(units, Factors(last.s),
                            [factor |-> One, exponents |-> emptyExponents])

\* the metric prefixes and their multipliers as prefix reads them
Prefixes == {<<"d", "a">>} \cup {<<prefixSymbols[i]>> : i \in DOMAIN prefixSymbols}

PrefixMultiplier(p) ==
    IF p = <<"d", "a">> THEN deca ELSE prefixValues[IndexByte(prefixSymbols, p[1]) + 1]

\* res is the prefix multiplier mult applied to the registered base b
PrefixedBase(reg, b, mult, res) ==
    /\ b \in DOMAIN reg
    /\ IF b = <<"g">>
       THEN res.u = reg[<<"k", "g">>] /\ res.pf = FDiv(mult, Int2F(1000))
       ELSE /\ reg[b].factor = One /\ ~Contains(reg[b].symbol, " ")
            /\ res.u = reg[b] /\ res.pf = mult

\* res reads the token t as a prefix p and a base b with t = p + b
PrefixReading(reg, t, res) ==
    \E p \in Prefixes :
        /\ Len(t) > Len(p) /\ SubSeq(t, 1, Len(p)) = p
        /\ PrefixedBase(reg, Tail2(t, Len(p)), PrefixMultiplier(p), res)

\* res is the registered unit for a registered token, and for another token a
\* prefix reading or nothing
TokenResolution(reg, t, res) ==
    IF t \in DOMAIN reg THEN res = [ok |-> TRUE, u |-> reg[t], pf |-> One]
    ELSE res.ok => PrefixReading(reg, t, res)

\* the k-th factor of the last expression: its token resolves as the rule says,
\* and when it is the first thing wrong with the expression the call returned
\* the unknown-symbol error
TokenChecked(reg, factors, k, match) ==
    Len(match) = 3
        => /\ TokenResolution(reg, match[2], Resolve(reg, match[2]))
           /\ ( /\ ~Resolve(reg, match[2]).ok
                /\ SlashCount(last.s) <= 1
                /\ \A j \in 1..(k - 1) : Fine(reg, factors[j]) )
                  => ~last.r.panic /\ last.r.err = ErrUnknownSymbol

\* C5: a factor token that is a registered symbol resolves to that unit and not
\* to a prefix reading; another token resolves as prefix p applied to base b
\* only when it is p + b with b registered, of factor 1 and without a space, or
\* with b the gram, read as the kilogram with the multiplier divided by 1000;
\* in every other case ParseSymbol fails with the unknown-symbol error
C5_TokenResolution ==
    last.op = "ParseSymbol"
        => \A k \in DOMAIN Factors(last.s) :
               TokenChecked(units, Factors(last.s), k,
                            SymbolRxMatch(Factors(last.s)[k].symbol))

\* C5: micro-foot was given to ParseSymbol and rejected as an unknown symbol
C5_Witness ==
    /\ last.op = "ParseSymbol" /\ last.s = <<"u", "f", "t">>
    /\ ~last.r.panic /\ last.r.err = ErrUnknownSymbol

\* the SI prefixes with the power of ten of their multiplier
SIPrefixes ==
    { <<<<"y">>, -24>>, <<<<"z">>, -21>>, <<<<"a">>, -18>>, <<<<"f">>, -15>>,
      <<<<"p">>, -12>>, <<<<"n">>, -9>>, <<<<"u">>, -6>>, <<<<"m">>, -3>>,
      <<<<"c">>, -2>>, <<<<"d">>, -1>>, <<<<"d", "a">>, 1>>, <<<<"h">>, 2>>,
      <<<<"k">>, 3>>, <<<<"M">>, 6>>, <<<<"G">>, 9>>, <<<<"T">>, 12>>, <<<<"P">>, 15>>,
      <<<<"E">>, 18>>, <<<<"Z">>, 21>>, <<<<"Y">>, 24>> }

\* b is a registered name that takes a prefix
Prefixable(reg, b) ==
    /\ b \in DOMAIN reg /\ SymbolRxMatch(b) = <<b, b, <<>>>>
    /\ b = <<"g">> \/ (reg[b].factor = One /\ ~Contains(b, " "))

\* the last expression is the prefix p with a prefixable base and no registered
\* symbol itself
PrefixedExpression(reg, s, p) ==
    /\ Len(s) > Len(p) /\ SubSeq(s, 1, Len(p)) = p
    /\ s \notin DOMAIN reg
    /\ Prefixable(reg, Tail2(s, Len(p)))

\* C6: for each prefix p with its SI multiplier 10^e and each prefixable base
\* unit b, ParseSymbol(p + b) has the SI factor 10^e times the factor of b
C6_PrefixMultipliers ==
    last.op = "ParseSymbol"
        => \A x \in SIPrefixes :
               PrefixedExpression(units, last.s, x[1])
                   => /\ Succeeded(last.r)
                      /\ last.r.q.unit.factor
                             = FMul(Dec(1, x[2]), units[Tail2(last.s, Len(x[1]))].factor)

NegativeAt(factors, i) ==
    \E k \in DOMAIN factors :
        factors[k].i = i /\ NegativeExponent(SymbolRxMatch(factors[k].symbol))

\* C7: ParseSymbol returns an error for an expression with more than one '/'
\* and for one with a negative exponent on a factor after the '/'; a negative
\* exponent on a factor before the '/' is accepted
C7_SlashRules ==
    last.op = "ParseSymbol"
        => /\ ~last.r.panic
           /\ SlashCount(last.s) > 1 => last.r.err = ErrSlashes
           /\ NegativeAt(Factors(last.s), 1) => last.r.err # NoError
           /\ NegativeAt(Factors(last.s), 0) /\ InGrammar(units, last.s)
                  => last.r.err = NoError

\* C7: m/s-2 was given to ParseSymbol and rejected for its negative exponent
C7_Witness ==
    /\ last.op = "ParseSymbol" /\ last.s = <<"m", "/", "s", "-", "2">>
    /\ ~last.r.panic /\ last.r.err = ErrNegativeExponent

\* C8: on success ParseSymbol(s) returns a unit whose display symbol is the
\* input string s as the caller wrote it
C8_SymbolIsInput ==
    last.op = "ParseSymbol" /\ Succeeded(last.r) => last.r.q.unit.symbol = last.s

\* C9: for every symbol s in the registry with factor f, ParseSymbol(s) succeeds
\* with factor f and the dimension vector of the registered unit
C9_RegisteredParses ==
    last.op = "ParseSymbol" /\ last.s \in DOMAIN units
        => /\ Succeeded(last.r)
           /\ last.r.q.unit.factor = units[last.s].factor
           /\ last.r.q.unit.exponents = units[last.s].exponents

\* C10: UnitFor(s) never panics; when s cannot be resolved it returns the
\* Undefined sentinel (symbol "?", factor 0, all-zero dimension vector) and the
\* registry stays as it was, and the sentinel is never stored in the registry
C10_UndefinedNotCached ==
    /\ \A k \in DOMAIN units : units[k] # UndefinedUnit
    /\ last.op = "UnitFor"
           => /\ ~last.r.panic
              /\ ~Resolves(unitsBefore, last.s)
                     => /\ last.r.u = Unit(<<"?">>, Zero, [k \in 1..nBaseUnits |-> 0])
                        /\ units = unitsBefore

\* C10: UnitFor was given a symbol that does not resolve
C10_Witness ==
    /\ last.op = "UnitFor" /\ last.s = <<"d", "z">>
    /\ ~last.r.panic /\ last.r.u = UndefinedUnit

(***************************************************************************)
(* the registry over time (C11 .. C14)                                     *)
(***************************************************************************)
\* the last call was UnitFor(s)
LookedUp(s) == last.op = "UnitFor" /\ last.s = s

\* the last call was UnitFor(s) and it returned a resolved unit
ResolvedBy(s) == LookedUp(s) /\ ~last.r.panic /\ last.r.u # UndefinedUnit

\* the last call was answered from the registry: no parse, no registry
\* write, and the unit is the registered one
ServedFromCache(s) ==
    /\ ~last.r.panic /\ ~last.r.parsed
    /\ units = unitsBefore
    /\ s \in DOMAIN unitsBefore /\ last.r.u = unitsBefore[s]

\* C11: once UnitFor(s) has returned a resolved unit, a later UnitFor(s) is
\* served from the cache: it does not call the parser, does not write the
\* registry and returns the registered unit.  Stated for the UnitFor(s)
\* that directly follows the call that resolved s, where nothing has
\* happened in between.
C11_MemoizedLookup ==
    [][\A s \in LookupSymbols :
           ResolvedBy(s) /\ LookedUp(s)' => ServedFromCache(s)']_vars

\* C12: the registry is append-only: a key that is present keeps its record
\* (symbol, factor, dimension vector) in every later state; UnitFor adds at
\* most one entry, and only for a string that was not registered and that
\* parses; a successful Define adds exactly one entry
C12_AppendOnly ==
    /\ \A k \in DOMAIN unitsBefore : k \in DOMAIN units /\ units[k] = unitsBefore[k]
    /\ last.op = "UnitFor" /\ ~last.r.panic
       => /\ Added(units) - Added(unitsBefore) \in {0, 1}
          /\ Added(units) # Added(unitsBefore)
             => last.s \notin DOMAIN unitsBefore /\ last.r.u # UndefinedUnit
    /\ last.op = "Define" /\ ~last.r.panic /\ last.r.err = NoError
       => Added(units) = Added(unitsBefore) + 1

\* the last call was Define and it returned
DefineReturned == last.op = "Define" /\ ~last.r.panic

\* C13: Define returns an error and 0 exactly when the new symbol is
\* already registered or the base does not parse, and then the registry is
\* what it was before the call
C13_FailedDefine ==
    DefineReturned
    => /\ last.r.err # NoError
          <=> \/ last.symbol \in DOMAIN unitsBefore
              \/ ~Succeeded(ParseSymbol(unitsBefore, last.base))
       /\ last.r.err # NoError => last.r.siFactor = Zero /\ units = unitsBefore

\* Define failed for a symbol that an earlier lookup had cached
C13_Witness ==
    /\ DefineReturned /\ last.r.err = ErrDuplicate
    /\ last.symbol \notin DOMAIN InitialUnits
    /\ units = unitsBefore

\* the entry a successful Define(symbol, factor, base) registers, given
\* what the base parsed to
DefinedEntry(symbol, factor, mBase) ==
    Unit(symbol, FMul(factor, mBase.q.unit.factor), mBase.q.unit.exponents)

\* s parses as a one-token expression to the factor and the dimension
\* vector of u
ResolvesTo(r, u) ==
    Succeeded(r) /\ r.q.unit.factor = u.factor /\ r.q.unit.exponents = u.exponents

\* what C14 says of a successful Define, mBase being what the base parsed to
DefinedAs(mBase) ==
    /\ last.r.siFactor = FMul(last.factor, mBase.q.unit.factor)
    /\ units = Store(unitsBefore, last.symbol,
                     DefinedEntry(last.symbol, last.factor, mBase))
    /\ Added(units) = Added(unitsBefore) + 1
    /\ UnitFor(units, last.symbol).u = DefinedEntry(last.symbol, last.factor, mBase)
    /\ ResolvesTo(ParseSymbol(units, last.symbol),
                  DefinedEntry(last.symbol, last.factor, mBase))

\* C14: when the new symbol is not registered and the base parses to fb and
\* vb, Define returns factor * fb without error and adds exactly the entry
\* {newSymbol, factor * fb, vb}; afterwards UnitFor(newSymbol) returns that
\* entry and newSymbol resolves as a factor token
C14_SuccessfulDefine ==
    /\ DefineReturned
    /\ last.symbol \notin DOMAIN unitsBefore
    /\ Succeeded(ParseSymbol(unitsBefore, last.base))
    => last.r.err = NoError /\ DefinedAs(ParseSymbol(unitsBefore, last.base))

(***************************************************************************)
(* compatibility policy, sums and comparisons (C15 .. C17)                 *)
(***************************************************************************)
PolicyOps == {"Add", "Subtract", "Sum", "Diff", "Equal", "More", "Less"}

\* the operands of the call l after its first operand l.a
Others(l) ==
    IF l.op = "Equal" THEN <<l.b, l.epsilon>>
    ELSE IF l.op \in {"More", "Less"} THEN <<l.b>>
    ELSE l.more

\* the dimension vectors of the operands of the call l differ
Differ(l) ==
    \E k \in DOMAIN Others(l) : Others(l)[k].unit.exponents # l.a.unit.exponents

\* the result of the call l is well formed: a bool for a comparison, a
\* quantity with the dimension vector of the first operand otherwise
WellFormed(l) ==
    IF l.op \in {"Equal", "More", "Less"} THEN l.r.b \in BOOLEAN
    ELSE ~IsNil(l.r.q.unit) /\ l.r.q.unit.exponents = l.a.unit.exponents

\* C15: with the strict policy Add, Subtract, Sum, Diff, Equal, More and
\* Less panic exactly when the dimension vectors of their operands differ;
\* without it they never panic and return a well-formed result
C15_IncompatibilityPolicy ==
    last.op \in PolicyOps
    => /\ PanicOnIncompatibleUnits => (last.r.panic <=> Differ(last))
       /\ ~PanicOnIncompatibleUnits => ~last.r.panic
       /\ ~last.r.panic => WellFormed(last)

\* Equal panicked under the strict policy because of its epsilon alone
C15_Witness ==
    /\ PanicOnIncompatibleUnits /\ last.op = "Equal" /\ last.r.panic
    /\ last.a.unit.exponents = last.b.unit.exponents
    /\ last.a.unit.exponents # last.epsilon.unit.exponents

\* the sum of bi.value * bi.factor over more[k..]
RECURSIVE TotalSI(_, _)
TotalSI(more, k) ==
    IF k > Len(more) THEN Zero ELSE FAdd(SIValue(more[k]), TotalSI(more, k + 1))

\* the left fold of Add ("+=") or Subtract ("-=") over more[k..], acc being
\* what the calls so far returned
RECURSIVE FoldLeft(_, _, _, _, _)
FoldLeft(strict, op, acc, more, k) ==
    IF k > Len(more) \/ acc.panic THEN acc
    ELSE FoldLeft(strict, op,
                  IF op = "+=" THEN Add(strict, acc.q, more[k])
                  ELSE Subtract(strict, acc.q, more[k]),
                  more, k + 1)

\* what C16 says of the call l of Sum ("+=") or Diff ("-=")
Accumulated(strict, l, op) ==
    /\ l.r.panic <=> strict /\ Differ(l)
    /\ ~l.r.panic
       => /\ l.r.q.value = IF op = "+=" THEN FAdd(SIValue(l.a), TotalSI(l.more, 1))
                           ELSE FSub(SIValue(l.a), TotalSI(l.more, 1))
          /\ l.r.q.unit.exponents = l.a.unit.exponents
    /\ Len(l.more) = 1
       => l.r = IF op = "+=" THEN Add(strict, l.a, l.more[1])
                ELSE Subtract(strict, l.a, l.more[1])
    /\ Len(l.more) >= 1 => l.r = FoldLeft(strict, op, Ret(l.a), l.more, 1)

\* C16: Sum(a, b1..bn) returns a.value * a.factor plus the sum of the
\* bi.value * bi.factor and Diff returns a.value * a.factor minus that sum,
\* with the dimension vector of a, each bi being checked against a; Sum(a, b)
\* is Add(a, b), Diff(a, b) is Subtract(a, b), and with more operands they
\* are the left fold of Add and of Subtract
C16_SumDiff ==
    /\ last.op = "Sum" => Accumulated(PanicOnIncompatibleUnits, last, "+=")
    /\ last.op = "Diff" => Accumulated(PanicOnIncompatibleUnits, last, "-=")

\* Diff returned for a first operand in km and two further operands
C16_Witness ==
    /\ last.op = "Diff" /\ ~last.r.panic /\ Len(last.more) = 2
    /\ last.a.unit.factor # One
    /\ last.more[1] # last.more[2]

\* the absolute value of a float64
FAbs(x) == IF FLess(x, Zero) THEN FNeg(x) ELSE x

\* C17: Equal(a, b, epsilon) holds exactly when the SI values of a and b
\* differ by less than the magnitude of the SI value of epsilon; it is
\* symmetric in a and b and does not depend on the sign of epsilon
C17_EqualWithinEpsilon ==
    last.op = "Equal" /\ ~last.r.panic
    => /\ last.r.b <=> FLess(FAbs(FSub(SIValue(last.a), SIValue(last.b))),
                             FAbs(SIValue(last.epsilon)))
       /\ last.r = Equal(PanicOnIncompatibleUnits, last.b, last.a, last.epsilon)
       /\ last.r = Equal(PanicOnIncompatibleUnits, last.a, last.b, Neg(last.epsilon))

(***************************************************************************)
(* ordering, normalisation and compatibility (C18 .. C20)                  *)
(***************************************************************************)
\* Less(a, b) as a bool, for compatible a and b
Below(a, b) == Less(PanicOnIncompatibleUnits, a, b).b

\* Less is a strict order on the elements of the slice a
StrictOrder(a) ==
    \A i, j, k \in DOMAIN a :
        /\ ~Below(a[i], a[i])
        /\ Below(a[i], a[j]) => ~Below(a[j], a[i])
        /\ Below(a[i], a[j]) /\ Below(a[j], a[k]) => Below(a[i], a[k])

\* b holds the elements of a, each as often as a does
Permutation(a, b) ==
    /\ Len(a) = Len(b)
    /\ \A i \in DOMAIN a :
           Cardinality({j \in DOMAIN a : a[j] = a[i]})
               = Cardinality({j \in DOMAIN b : b[j] = a[i]})

\* the SI values of the slice a do not decrease
NonDecreasing(a) ==
    \A i, j \in DOMAIN a : i < j => ~FLess(SIValue(a[j]), SIValue(a[i]))

\* C18: Less(a, b) holds exactly when a.value * a.factor < b.value * b.factor
\* and More(a, b) exactly when it is greater; on compatible quantities Less
\* is irreflexive, asymmetric and transitive, and sort.Sort returns a
\* permutation of the slice in non-decreasing SI value, whatever the display
\* units
C18_Ordering ==
    /\ last.op = "Less" /\ ~last.r.panic
       => last.r.b <=> FLess(SIValue(last.a), SIValue(last.b))
    /\ last.op = "More" /\ ~last.r.panic
       => last.r.b <=> FLess(SIValue(last.b), SIValue(last.a))
    /\ last.op = "Sort"
       => /\ ~last.r.panic
          /\ StrictOrder(last.a)
          /\ Permutation(last.a, last.r.a)
          /\ NonDecreasing(last.r.a)

\* a slice of three lengths in three display units that Sort reordered
C18_Witness ==
    /\ last.op = "Sort" /\ ~last.r.panic /\ Len(last.a) = 3
    /\ Cardinality({last.a[i].unit.symbol : i \in DOMAIN last.a}) = 3
    /\ last.r.a # last.a

\* q is r in SI: the value times the factor, a unit of factor 1 with the
\* dimension vector of r and the canonical symbol of that vector
InSI(q, r) ==
    /\ q.value = FMul(r.value, r.unit.factor)
    /\ q.unit = Unit(makeSymbol(r.unit.exponents), One, r.unit.exponents)

\* C19: Normalize turns a quantity into what ToSI returns for it: the value
\* becomes value * factor and the unit the factor-1 unit with the same
\* dimension vector and its canonical symbol; both change nothing when
\* applied again
C19_Normalize ==
    last.op \in {"Normalize", "ToSI"}
    => /\ ~last.r.panic
       /\ last.r = ToSI(last.a) /\ last.r = Normalize(last.a)
       /\ InSI(last.r.q, last.a)
       /\ Normalize(last.r.q) = last.r /\ ToSI(last.r.q) = last.r

\* Normalize of a quantity whose unit has another factor and symbol
C19_Witness ==
    /\ last.op = "Normalize" /\ ~last.r.panic
    /\ last.a.unit.factor # One
    /\ last.a.value # last.r.q.value
    /\ last.a.unit.symbol # last.r.q.unit.symbol

\* AreCompatible(a, b) as a bool
Compat(a, b) == AreCompatible(a, b).b

\* C20: AreCompatible(a, b) holds exactly when the dimension vectors are
\* equal; it is reflexive, symmetric and transitive and does not depend on
\* the values, factors or symbols of a and b
C20_AreCompatible ==
    last.op = "AreCompatible"
    => /\ ~last.r.panic
       /\ last.r.b <=> last.a.unit.exponents = last.b.unit.exponents
       /\ Compat(last.a, last.a)
       /\ Compat(last.b, last.a) = last.r.b
       /\ \A c \in CompatSamples :
              /\ last.r.b /\ Compat(last.b, c) => Compat(last.a, c)
              /\ c.unit.exponents = last.b.unit.exponents => Compat(last.a, c) = last.r.b

\* a pressure written as an expression is compatible with one in Pa
C20_Witness ==
    /\ last.op = "AreCompatible" /\ ~last.r.panic /\ last.r.b
    /\ last.a.unit.symbol = <<"N", ".", "m", "-", "2">>
    /\ last.b.unit.symbol = <<"P", "a">>
    /\ last.a.value # last.b.value

(***************************************************************************)
(* parsing texts, invalid quantities (C21 .. C23)                          *)
(***************************************************************************)
\* the text s after its leading whitespace and sign
Unsigned(s) ==
    IF Tail2(s, SpanLen(s, Whitespace)) # <<>> /\ Head(Tail2(s, SpanLen(s, Whitespace))) = "-"
    THEN Tail(Tail2(s, SpanLen(s, Whitespace)))
    ELSE Tail2(s, SpanLen(s, Whitespace))

\* s starts with an optionally signed number
StartsWithNumber(s) == SpanLen(Unsigned(s), NumberBytes) > 0

\* the digits, points and separators of the number s starts with
NumericGroup(s) == SubSeq(Unsigned(s), 1, SpanLen(Unsigned(s), NumberBytes))

\* the number s starts with is negative
Negative(s) == Unsigned(s) # Tail2(s, SpanLen(s, Whitespace))

\* what follows the number, trimmed of whitespace
Remainder(s) ==
    Trim(Tail2(Unsigned(s), SpanLen(Unsigned(s), NumberBytes)), {" ", "\t", "\r", "\n"})

\* the numeric group is a valid number once the separators are removed
ValidNumber(s) ==
    /\ Count(NumericGroup(s), ".") <= 1
    /\ \E i \in DOMAIN NumericGroup(s) : NumericGroup(s)[i] \in Digits

\* the number s starts with
NumberOf(s) ==
    ParseFloatDigits(Negative(s), ReplaceAll(NumericGroup(s), ",", <<>>)).value

\* C21: Parse returns an error exactly when the text does not start with an
\* optionally signed number, the numeric group holds more than one '.', the
\* group is no valid number once the ',' are removed, or ParseSymbol rejects
\* the trimmed remainder; otherwise it returns the parsed number with the
\* unit ParseSymbol gives for the remainder; with an error it returns value
\* 0 and the Undefined unit
C21_Parse ==
    last.op = "Parse"
    => /\ ~last.r.panic
       /\ last.r.err # NoError
          <=> \/ ~StartsWithNumber(last.s)
              \/ ~ValidNumber(last.s)
              \/ ~Succeeded(ParseSymbol(units, Remainder(last.s)))
       /\ last.r.err = NoError
          => /\ last.r.q.value = NumberOf(last.s)
             /\ last.r.q.unit = ParseSymbol(units, Remainder(last.s)).q.unit
       /\ last.r.err # NoError => last.r.q = Quantity(Zero, UndefinedUnit)

\* the unit of q is the Undefined sentinel, or q has no unit
Unresolved(q) == IsNil(q.unit) \/ q.unit = UndefinedUnit

\* the quantities the last call was applied to
Operands(call) ==
    {call.a} \cup (IF "b" \in DOMAIN call THEN {call.b} ELSE {})
             \cup (IF "epsilon" \in DOMAIN call THEN {call.epsilon} ELSE {})
             \cup (IF "more" \in DOMAIN call THEN {call.more[k] : k \in DOMAIN call.more} ELSE {})

PropagatingOps ==
    {"Add", "Subtract", "Mult", "Div", "Power", "Reciprocal", "AreCompatible", "Equal",
     "Less", "ToSI", "In", "ConvertTo"}

\* C22: with the strict policy unset, Add, Subtract, Mult, Div, Power,
\* Reciprocal, AreCompatible, Equal, Less, ToSI, In and ConvertTo applied to
\* a quantity whose unit is the Undefined sentinel or that has no unit do
\* not panic: the call returns a result
C22_InvalidPropagates ==
    /\ ~PanicOnIncompatibleUnits
    /\ last.op \in PropagatingOps
    /\ \E q \in Operands(last) : Unresolved(q)
    => ~last.r.panic

\* the last call returned a quantity with an error, an unknown symbol or ok
\* false
FailedCall ==
    \/ last.op = "Parse" /\ last.r.err # NoError
    \/ last.op = "In" /\ ~Resolves(unitsBefore, last.s)
    \/ last.op = "ConvertTo" /\ ~last.r.ok

\* C23: Invalid() is true for the quantity Parse returns with an error, for
\* the result of In with an unknown symbol and for the quantity of a failed
\* ConvertTo, and false for a quantity built from a resolved unit
C23_InvalidDetects ==
    /\ last.op \in {"Parse", "In", "ConvertTo"} /\ ~last.r.panic
       => Invalid(last.r.q) = FailedCall
    /\ last.op = "Q" /\ ~last.r.panic => ~Invalid(last.r.q)

(***************************************************************************)
(* the Resource (C24, C25)                                                 *)
(***************************************************************************)
\* a is not more than b by SI value
AtMost(a, b) == ~FLess(SIValue(b), SIValue(a))

ResourceMethods == {"Set", "Deposit", "Withdraw", "WithdrawPct", "Min", "Max"}

\* C24: a Resource created by New(min, max, ctx) with min < max starts with
\* its balance equal to min, and after any sequence of Set, Deposit,
\* Withdraw, WithdrawPct, Min and Max calls min <= balance <= max holds by
\* SI value
C24_BalanceWithinBounds ==
    /\ last.op = "New" /\ resource # NilResource => resource.balance = last.min
    /\ resource # NilResource
       => AtMost(resource.min, resource.balance) /\ AtMost(resource.balance, resource.max)

\* the last call was a method of the Resource that reported failure
ReportedFailure ==
    /\ last.op \in ResourceMethods
    /\ ~last.r.panic
    /\ IF last.op = "WithdrawPct" THEN last.r.err # NoError ELSE ~last.r.ok

\* C25: a Resource operation that reports failure (Set, Deposit, Withdraw,
\* Min or Max returning false, WithdrawPct returning an error) leaves min,
\* max and balance as they were before the call
C25_FailureChangesNothing ==
    ReportedFailure
    => /\ resource.min = last.h.min
       /\ resource.max = last.h.max
       /\ resource.balance = last.h.balance

\* a withdrawal of a compatible quantity was refused for the lower bound
\* while the balance was above it
C25_Witness ==
    /\ ReportedFailure
    /\ last.op = "Withdraw"
    /\ AreCompatible(last.h.balance, last.q).b
    /\ FLess(SIValue(last.h.min), SIValue(last.h.balance))

(***************************************************************************)
(* products and quotients (C26)                                            *)
(***************************************************************************)
\* the second operand of the last Mult or Div
Other == last.more[1]

\* C26: the SI value (value times factor of the returned quantity) of
\* Mult(a, b) is the product of the SI values of a and b and that of
\* Div(a, b) their quotient, with the dimension vector a + b and a - b;
\* Div(Mult(a, b), b) has the SI value and the dimension vector of a
C26_ProductSIValue ==
    /\ last.op = "Mult" /\ ~last.r.panic
       => /\ SIValue(last.r.q) = FMul(SIValue(last.a), SIValue(Other))
          /\ last.r.q.unit.exponents
                = [i \in 1..nBaseUnits |-> last.a.unit.exponents[i] + Other.unit.exponents[i]]
          /\ ~Div(last.r.q, Other).panic
          /\ SIValue(Div(last.r.q, Other).q) = SIValue(last.a)
          /\ Div(last.r.q, Other).q.unit.exponents = last.a.unit.exponents
    /\ last.op = "Div" /\ ~last.r.panic
       => /\ SIValue(last.r.q) = FDiv(SIValue(last.a), SIValue(Other))
          /\ last.r.q.unit.exponents
                = [i \in 1..nBaseUnits |-> last.a.unit.exponents[i] - Other.unit.exponents[i]]

(***************************************************************************)
(* the registry and the pure operations (C27, C28)                         *)
(***************************************************************************)
\* the units u and v have the same factor and dimension vector
SameMeaning(u, v) == u.factor = v.factor /\ u.exponents = v.exponents

\* what e meant to ParseSymbol and to UnitFor when the last call began, it
\* means after the call
KeepsMeaning(e) ==
    /\ Succeeded(ParseSymbol(unitsBefore, e))
       => /\ Succeeded(ParseSymbol(units, e))
          /\ SameMeaning(ParseSymbol(units, e).q.unit, ParseSymbol(unitsBefore, e).q.unit)
    /\ Resolves(unitsBefore, e)
       => /\ Resolves(units, e)
          /\ SameMeaning(Resolved(units, e), Resolved(unitsBefore, e))

\* C27: an expression that ParseSymbol or UnitFor resolved with factor f and
\* dimension vector v resolves with the same f and v after every later
\* Define and lookup (stated for one call, hence for every sequence of
\* calls); Define cannot take over a symbol that resolves through a prefix
C27_MeaningPreserved == \A e \in LookupSymbols : KeepsMeaning(e)

\* the operations that look a symbol up with UnitFor
LookupOps == {"UnitFor", "Q", "ConvertTo", "In", "HasCompatibleUnit"}

\* the operations that only calculate
PureOps ==
    {"ParseSymbol", "Parse", "Add", "Subtract", "Mult", "Div", "Power", "Reciprocal", "Sum",
     "Diff", "ToSI", "Normalize"}

\* the last call was a successful Define, or a lookup of a symbol that was
\* not registered and parsed
Registering ==
    \/ last.op = "Define" /\ ~last.r.panic /\ last.r.err = NoError
    \/ /\ last.op \in LookupOps
       /\ last.s \notin DOMAIN unitsBefore
       /\ Succeeded(ParseSymbol(unitsBefore, last.s))

\* the keys the last call added to the registry
NewKeys == DOMAIN units \ DOMAIN unitsBefore

\* C28: the registry changes only with a successful Define or with a lookup
\* (UnitFor, Q, ConvertTo, In, HasCompatibleUnit) that misses the cache and
\* parses; such a call adds at most one entry, its key is the symbol of the
\* stored unit, and no key is removed; ParseSymbol, Parse, Add, Subtract,
\* Mult, Div, Power, Reciprocal, Sum, Diff, ToSI and Normalize leave the
\* registry as it was
C28_RegistryGrowth ==
    /\ units # unitsBefore => Registering
    /\ DOMAIN unitsBefore \subseteq DOMAIN units
    /\ Cardinality(NewKeys) <= 1
    /\ \A k \in NewKeys : units[k].symbol = k
    /\ last.op \in PureOps => units = unitsBefore

\* a lookup made by In, ConvertTo or HasCompatibleUnit has added an entry
C28_Witness ==
    /\ last.op \in {"In", "ConvertTo", "HasCompatibleUnit"}
    /\ ~last.r.panic
    /\ NewKeys # {}

(***************************************************************************)
(* canonical symbols and exponents (C29, C30)                              *)
(***************************************************************************)
\* the base symbol i with its exponent e, the exponent left out when it is 1
Term(i, e) == baseSymbols[i] \o (IF e = 1 THEN <<>> ELSE Itoa(e))

\* the terms of the nonzero exponents from i on, joined by '.'
RECURSIVE Joined(_, _)
Joined(expon, i) ==
    IF i > nBaseUnits THEN <<>>
    ELSE IF expon[i] = 0 THEN Joined(expon, i + 1)
    ELSE IF \A k \in (i + 1)..nBaseUnits : expon[k] = 0 THEN Term(i, expon[i])
    ELSE Term(i, expon[i]) \o <<".">> \o Joined(expon, i + 1)

\* C29: makeSymbol lists the base symbols with a nonzero exponent in the
\* order m, kg, K, A, cd, mol, rad, sr, the currency sign, byte, s, joined
\* by '.', each followed by its exponent unless that is 1; the zero vector
\* gives the empty symbol of the unitless unit; the symbol of a nonzero
\* vector parses back to the vector with factor 1
C29_CanonicalSymbol ==
    last.op = "makeSymbol"
    => /\ last.r = Joined(last.expon, 1)
       /\ last.expon = emptyExponents => last.r = <<>> /\ last.r \in DOMAIN units
       /\ last.expon # emptyExponents
          => /\ Succeeded(ParseSymbol(units, last.r))
             /\ ParseSymbol(units, last.r).q.unit.exponents = last.expon
             /\ ParseSymbol(units, last.r).q.unit.factor = One

\* the vector v multiplied by n, in exact integers
Times(n, v) == [k \in 1..nBaseUnits |-> n * v[k]]

\* every component of v is an int8
InRange(v) == \A k \in 1..nBaseUnits : v[k] \in -128..127

\* the dimension vectors Power(q, n), Mult(a, b) and Div(a, b) compute from
\* those of their operands
PowerExponents(v, n) == mapexp(v, [e \in -128..127 |-> Int8(e * n)])
MultExponents(v, w) == addx(v, w)
DivExponents(v, w) == addx(v, negx(w))

\* the dimension vector v of a parsed unit is exact: x is what the expression
\* denotes, and its powers, its square and the quotient of its reciprocal
\* and itself have n times, twice and minus twice the exponents, all within
\* -128..127
ExactExponents(v, x) ==
    /\ v = x
    /\ InRange(x)
    /\ \A n \in PowerArgs : PowerExponents(v, n) = Times(n, x)
    /\ MultExponents(v, v) = Times(2, x)
    /\ DivExponents(negx(v), v) = Times(-2, x)

\* C30: when ParseSymbol, Power, Mult or Div returns a result, every
\* component of its dimension vector is the exact integer (n * e for Power
\* and an exponent literal, e1 + e2 for Mult, e1 - e2 for Div) and lies in
\* -128..127: nothing is accepted with a vector reduced modulo 256
C30_ExactExponents ==
    last.op = "ParseSymbol" /\ Succeeded(last.r) /\ InGrammar(units, last.s)
    => ExactExponents(last.r.q.unit.exponents,
                      Denoted(units, Factors(last.s),
                              [factor |-> One, exponents |-> emptyExponents]).exponents)

====
